---- MODULE Spec2Model ----
(***************************************************************************)
(* Michael-Scott queue of michael-scott-q/src/lib.rs over an epoch-based   *)
(* reclaimer.  Every atomic load and compare_exchange of push, try_pop,    *)
(* pop and is_empty is one step of the calling thread; Drop runs once no   *)
(* call is in flight.                                                      *)
(*                                                                         *)
(* LazyTransform of lazy-transform-lf/src/lib.rs: set_source installs a    *)
(* SourceContext, get takes it, runs the transform and caches the result   *)
(* in a ValueContext.  Every fetch_add, load and compare_exchange is one   *)
(* step of the calling thread.                                             *)
(*                                                                         *)
(* Treiber stack of treiber-stack/src/lib.rs over the same epoch-based     *)
(* reclaimer: every load and compare_exchange of push and pop is one step  *)
(* of the calling thread, Drop walks the list once no call is in flight.   *)
(***************************************************************************)
EXTENDS Integers, Sequences, FiniteSets, TLC

\* ---------------------------------------------------------------- bounds
NumThreads == 2
MaxCalls == 3
MaxCallsLive == 2
MaxLtCalls == 4
MaxLtCallsLong == 5
MaxTsCalls == 4

Threads == 1..NumThreads

\* ------------------------------------------------------------ the heap
Null == 0
Dummy == 1
Nodes == 1..(MaxCalls + 1)

\* A payload <<producer, k>> is the k-th value pushed by that thread.
Uninit == <<0, 0>>
None == <<0, 1>>
Values == Threads \X (1..MaxCalls)

VARIABLES
    head, tail,       \* Queue.head, Queue.tail
    next, data,       \* Node.next, Node.data of every allocated node
    nalloc,           \* number of nodes allocated so far
    addr,             \* the address each node was allocated at
    pc, op,           \* each thread's position and the call it is in
    l_head, l_tail, l_next, l_new,   \* the locals of push / try_pop / is_empty
    ret,              \* the value the thread's last call returned
    calls, budget, pushCount,
    retired, blockers, freed,        \* the reclaimer
    phase, dropCur, dropChain,       \* Drop
    reads, payloadDrops, uaf, readUninit,   \* what happened to each node
    linPops, l_win, got,             \* history of the successful pops
    headWon,          \* per node: the threads whose head CAS expecting it succeeded
    nonEmptySeen,     \* observing call in flight: was a value present since its call
    linked,           \* the payloads in the order their link CAS succeeded
    casSeen,          \* per thread: a CAS succeeded since its loop iteration began
    casCount          \* number of successful CAS on head, tail or a next pointer

VARIABLES
    seq_counter, src_ctx, val_ctx,      \* LazyTransform's atomics
    ctx_seq, ctx_source, ctx_val,       \* the fields of every allocated context
    ctx_retired, nctx,                  \* retire calls per context, allocations
    lt_blockers,                        \* per context: the guards holding its reclamation back
    lt_pc, lt_op, lt_ret, lt_calls, lt_budget, setCount,
    new_seq, cur_src, new_src, taken, cur_val, new_val,   \* the locals
    lt_phase,
    srcOf, transforms, panics, anySome, afterSome,        \* history
    quietGet,         \* no other call ran since the last get of the thread began
    \* ---- Stack
    ts_head,                            \* Stack::head
    ts_prev, ts_data,                   \* Node::prev, Node::data
    ts_nalloc, ts_addr,                 \* nodes allocated so far, their addresses
    ts_pc, ts_op, ts_calls,             \* position, call and number of calls
    ts_node, ts_old, ts_new,            \* locals node, old_head, new_head
    ts_ret,                             \* what the last pop returned
    ts_retired, ts_blockers, ts_freed,  \* defer_destroy calls, guards, frees
    ts_phase, ts_cur,                   \* Drop and its local current
    ts_returned, ts_dropped, ts_uaf     \* history: payloads returned, dropped

queueVars == <<head, tail, next, data, nalloc, addr>>
threadVars == <<pc, op, l_head, l_tail, l_next, l_new, ret, calls, budget, pushCount>>
epochVars == <<retired, blockers, freed>>
dropVars == <<phase, dropCur, dropChain>>
ghostVars == <<reads, payloadDrops, uaf, readUninit, linPops, l_win, got, headWon, nonEmptySeen>>
progVars == <<linked, casSeen, casCount>>
msqVars == <<queueVars, threadVars, epochVars, dropVars, ghostVars, progVars>>

ltShared == <<seq_counter, src_ctx, val_ctx>>
ltHeap == <<ctx_seq, ctx_source, ctx_val, ctx_retired, nctx>>
ltLocals == <<new_seq, cur_src, new_src, taken, cur_val, new_val>>
ltThread == <<lt_pc, lt_op, lt_ret, lt_calls, lt_budget, setCount>>
ltGhost == <<srcOf, transforms, panics, anySome, afterSome, quietGet>>
ltVars == <<ltShared, ltHeap, lt_blockers, ltLocals, ltThread, lt_phase, ltGhost>>

tsShared == <<ts_head, ts_prev, ts_data, ts_nalloc, ts_addr>>
tsThread == <<ts_pc, ts_op, ts_calls, ts_node, ts_old, ts_new, ts_ret>>
tsEpoch == <<ts_retired, ts_blockers, ts_freed>>
tsDrop == <<ts_phase, ts_cur>>
tsGhost == <<ts_returned, ts_dropped, ts_uaf>>
tsVars == <<tsShared, tsThread, tsEpoch, tsDrop, tsGhost>>

vars == <<msqVars, ltVars, tsVars>>

\* ------------------------------------------------------------- helpers
RECURSIVE ChainFrom(_, _)
\* The nodes reached from n by next pointers, n first (fuel bounds a cycle).
ChainFrom(n, fuel) ==
    IF n = Null \/ fuel = 0 THEN <<>>
    ELSE <<n>> \o ChainFrom(next[n], fuel - 1)

Chain == ChainFrom(head, MaxCalls + 2)
FullChain == ChainFrom(Dummy, MaxCalls + 2)

\* The payloads of the nodes strictly after head, in next-pointer order.
AbsQ == [i \in 1..(Len(Chain) - 1) |-> data[Chain[i + 1]]]

\* A node is named by its allocation; the pointers the code compares are
\* addresses, and the allocator may hand out the address of a destroyed node
\* again.
AddrOf(p) == IF p = Null THEN 0 ELSE addr[p]

\* the addresses a new allocation can get: a fresh one, or one whose node
\* has been destroyed
FreeAddrs ==
    {a \in 1..(nalloc + 1) : \A n \in 1..nalloc : addr[n] = a => freed[n] > 0}

Pinned(t) == pc[t] # "idle"

\* guard dropped: t no longer holds back any retired node
Unpin(t) == blockers' = [n \in Nodes |-> blockers[n] \ {t}]

\* a dereference of node n (Shared::deref / as_ref and the access behind it)
Deref(n) == uaf' = (uaf \/ freed[n] > 0)

Live == phase = "live"
CanCall(t) == Live /\ pc[t] = "idle" /\ calls < budget

\* what a call hands back: push returns (), is_empty a bool, try_pop an Option
Unit == <<0, 2>>
BoolRet(b) == IF b THEN <<0, 3>> ELSE <<0, 4>>

PinnedThreads == {u \in Threads : Pinned(u)}

\* u is inside a call that reports what it finds in the queue
Observing(u) == pc[u] # "idle" /\ op[u] \in {"is_empty", "try_pop", "pop"}

\* the call of t ends: its locals die and the value v goes to the caller
Return(t, v) ==
    /\ pc' = [pc EXCEPT ![t] = "idle"]
    /\ ret' = [ret EXCEPT ![t] = v]
    /\ l_head' = [l_head EXCEPT ![t] = Null]
    /\ l_tail' = [l_tail EXCEPT ![t] = Null]
    /\ l_next' = [l_next EXCEPT ![t] = Null]
    /\ l_new' = [l_new EXCEPT ![t] = Null]

Goto(t, label) == pc' = [pc EXCEPT ![t] = label]

\* u is inside one of the retry loops (push, try_pop; pop calls try_pop)
InLoop(u) == pc[u] # "idle" /\ op[u] \in {"push", "try_pop", "pop"}

\* the first load of a loop iteration of t (lines 109 and 143)
IterationBegins(t) == casSeen' = [casSeen EXCEPT ![t] = FALSE]

\* no run has more successful compare_exchange than three per call (a push
\* has three, a try_pop two); the count stops there
MaxCas == 3 * MaxCalls

\* a compare_exchange with outcome ok has run; the threads in leaving return
CasOutcome(ok, leaving) ==
    /\ casSeen' = [u \in Threads |->
                     u \notin leaving /\ (casSeen[u] \/ (ok /\ InLoop(u)))]
    /\ casCount' = IF ok /\ casCount < MaxCas THEN casCount + 1 ELSE casCount

\* ------------------------------------------- the heap of LazyTransform
\* SourceContext and ValueContext allocations, numbered in allocation order
MaxCtx == 2 * MaxLtCallsLong
Ctxs == 1..MaxCtx
Seqs == 1..MaxLtCallsLong

\* Option::None of a source, of a value and of get's result
NoSource == 0
LtNone == 0

\* the k-th source thread t passes to set_source
Source(t, k) == 10 * t + k

\* the transform function of the tests: the source, extended
Transform(s) == s + 100

\* LazyTransform::new, before any call; the callers make at most b calls
LtFresh(b) ==
    /\ seq_counter = 0
    /\ src_ctx = Null
    /\ val_ctx = Null
    /\ ctx_seq = [c \in Ctxs |-> 0]
    /\ ctx_source = [c \in Ctxs |-> NoSource]
    /\ ctx_val = [c \in Ctxs |-> LtNone]
    /\ ctx_retired = [c \in Ctxs |-> 0]
    /\ lt_blockers = [c \in Ctxs |-> {}]
    /\ nctx = 0
    /\ lt_pc = [t \in Threads |-> "idle"]
    /\ lt_op = [t \in Threads |-> "none"]
    /\ lt_ret = [t \in Threads |-> LtNone]
    /\ lt_calls = 0
    /\ lt_budget = b
    /\ setCount = [t \in Threads |-> 0]
    /\ new_seq = [t \in Threads |-> 0]
    /\ cur_src = [t \in Threads |-> Null]
    /\ new_src = [t \in Threads |-> Null]
    /\ taken = [t \in Threads |-> Null]
    /\ cur_val = [t \in Threads |-> Null]
    /\ new_val = [t \in Threads |-> Null]
    /\ lt_phase = "live"
    /\ srcOf = [q \in Seqs |-> NoSource]
    /\ transforms = [q \in Seqs |-> 0]
    /\ panics = {}
    /\ anySome = FALSE
    /\ afterSome = [t \in Threads |-> FALSE]
    /\ quietGet = [t \in Threads |-> FALSE]

\* the nodes of the stack: one per push
TsNodes == 1..MaxTsCalls

\* Stack::new, before any call
TsFresh ==
    /\ ts_head = Null
    /\ ts_prev = [n \in TsNodes |-> Null]
    /\ ts_data = [n \in TsNodes |-> 0]
    /\ ts_nalloc = 0
    /\ ts_addr = [n \in TsNodes |-> 0]
    /\ ts_pc = [t \in Threads |-> "idle"]
    /\ ts_op = [t \in Threads |-> "none"]
    /\ ts_calls = 0
    /\ ts_node = [t \in Threads |-> Null]
    /\ ts_old = [t \in Threads |-> Null]
    /\ ts_new = [t \in Threads |-> Null]
    /\ ts_ret = [t \in Threads |-> 0]
    /\ ts_retired = [n \in TsNodes |-> 0]
    /\ ts_blockers = [n \in TsNodes |-> {}]
    /\ ts_freed = [n \in TsNodes |-> 0]
    /\ ts_phase = "live"
    /\ ts_cur = Null
    /\ ts_returned = [n \in TsNodes |-> 0]
    /\ ts_dropped = [n \in TsNodes |-> 0]
    /\ ts_uaf = FALSE

\* ------------------------------------------------------------- Init
InitOf(b, lb) ==
    /\ head = Dummy
    /\ tail = Dummy
    /\ next = [n \in Nodes |-> Null]
    /\ data = [n \in Nodes |-> Uninit]
    /\ nalloc = 1
    /\ addr = [n \in Nodes |-> IF n = Dummy THEN 1 ELSE 0]
    /\ pc = [t \in Threads |-> "idle"]
    /\ op = [t \in Threads |-> "none"]
    /\ l_head = [t \in Threads |-> Null]
    /\ l_tail = [t \in Threads |-> Null]
    /\ l_next = [t \in Threads |-> Null]
    /\ l_new = [t \in Threads |-> Null]
    /\ ret = [t \in Threads |-> Unit]
    /\ calls = 0
    /\ budget = b
    /\ pushCount = [t \in Threads |-> 0]
    /\ retired = [n \in Nodes |-> 0]
    /\ blockers = [n \in Nodes |-> {}]
    /\ freed = [n \in Nodes |-> 0]
    /\ phase = "live"
    /\ dropCur = Null
    /\ dropChain = <<>>
    /\ reads = [n \in Nodes |-> 0]
    /\ payloadDrops = [n \in Nodes |-> 0]
    /\ uaf = FALSE
    /\ readUninit = FALSE
    /\ linPops = <<>>
    /\ l_win = [t \in Threads |-> 0]
    /\ got = [t \in Threads |-> <<>>]
    /\ headWon = [n \in Nodes |-> <<>>]
    /\ nonEmptySeen = [t \in Threads |-> FALSE]
    /\ linked = <<>>
    /\ casSeen = [t \in Threads |-> FALSE]
    /\ casCount = 0
    /\ LtFresh(lb)
    /\ TsFresh

InitWith(b) == InitOf(b, MaxLtCalls)

Init == InitWith(MaxCalls)

\* ------------------------------------------------------------- push
\* lines 101-106: pin, allocate the node with the payload and a null next
PushStart(t) ==
    /\ CanCall(t)
    /\ nalloc' = nalloc + 1
    /\ \E a \in FreeAddrs : addr' = [addr EXCEPT ![nalloc + 1] = a]
    /\ data' = [data EXCEPT ![nalloc + 1] = <<t, pushCount[t] + 1>>]
    /\ next' = [next EXCEPT ![nalloc + 1] = Null]
    /\ pushCount' = [pushCount EXCEPT ![t] = @ + 1]
    /\ calls' = calls + 1
    /\ op' = [op EXCEPT ![t] = "push"]
    /\ l_new' = [l_new EXCEPT ![t] = nalloc + 1]
    /\ ret' = [ret EXCEPT ![t] = Unit]
    /\ Goto(t, "push_load_tail")
    /\ UNCHANGED <<head, tail, l_head, l_tail, l_next, budget>>
    /\ UNCHANGED <<epochVars, dropVars, ghostVars>>
    /\ UNCHANGED progVars
    /\ UNCHANGED <<ltVars, tsVars>>

\* line 109
PushLoadTail(t) ==
    /\ pc[t] = "push_load_tail"
    /\ l_tail' = [l_tail EXCEPT ![t] = tail]
    /\ Goto(t, "push_load_next")
    /\ UNCHANGED <<queueVars, op, l_head, l_next, l_new, ret, calls, budget, pushCount>>
    /\ UNCHANGED <<epochVars, dropVars, ghostVars>>
    /\ IterationBegins(t)
    /\ UNCHANGED <<linked, casCount>>
    /\ UNCHANGED <<ltVars, tsVars>>

\* lines 112-117: tail.deref().next.load, then the branch on null
PushLoadNext(t) ==
    /\ pc[t] = "push_load_next"
    /\ Deref(l_tail[t])
    /\ l_next' = [l_next EXCEPT ![t] = next[l_tail[t]]]
    /\ Goto(t, IF next[l_tail[t]] # Null THEN "push_help" ELSE "push_link")
    /\ UNCHANGED <<queueVars, op, l_head, l_tail, l_new, ret, calls, budget, pushCount>>
    /\ UNCHANGED <<epochVars, dropVars>>
    /\ UNCHANGED <<reads, payloadDrops, readUninit, linPops, l_win, got, headWon, nonEmptySeen>>
    /\ UNCHANGED progVars
    /\ UNCHANGED <<ltVars, tsVars>>

TailCasNever(t) == FALSE
TailCasAlways(t) == TRUE
\* a compare_exchange on Queue.tail succeeds iff tail still is the expected node
TailCasOk(t) == AddrOf(tail) = AddrOf(l_tail[t])

HelpNowhere(t) == l_tail[t]
\* lines 123 and 162: the helping compare_exchange moves tail to the loaded successor
HelpTarget(t) == l_next[t]

\* lines 123-124: help the lagging tail forward, then retry
PushHelp(t) ==
    /\ pc[t] = "push_help"
    /\ tail' = IF TailCasOk(t) THEN HelpTarget(t) ELSE tail
    /\ Goto(t, "push_load_tail")
    /\ UNCHANGED <<head, next, data, nalloc, addr>>
    /\ UNCHANGED <<op, l_head, l_tail, l_next, l_new, ret, calls, budget, pushCount>>
    /\ UNCHANGED <<epochVars, dropVars, ghostVars>>
    /\ CasOutcome(TailCasOk(t), {})
    /\ UNCHANGED linked
    /\ UNCHANGED <<ltVars, tsVars>>

LinkCasAlways(t) == TRUE
\* line 128: the compare_exchange on tail.next expects null
LinkCasOk(t) == next[l_tail[t]] = Null

\* lines 128-131: link the new node after the observed tail, or retry
PushLink(t) ==
    /\ pc[t] = "push_link"
    /\ Deref(l_tail[t])
    /\ IF LinkCasOk(t)
       THEN /\ next' = [next EXCEPT ![l_tail[t]] = l_new[t]]
            /\ nonEmptySeen' = [u \in Threads |-> nonEmptySeen[u] \/ Observing(u)]
            /\ linked' = Append(linked, data[l_new[t]])
            /\ Goto(t, "push_swing")
       ELSE /\ next' = next
            /\ nonEmptySeen' = nonEmptySeen
            /\ linked' = linked
            /\ Goto(t, "push_load_tail")
    /\ UNCHANGED <<head, tail, data, nalloc, addr>>
    /\ UNCHANGED <<op, l_head, l_tail, l_next, l_new, ret, calls, budget, pushCount>>
    /\ UNCHANGED <<epochVars, dropVars>>
    /\ UNCHANGED <<reads, payloadDrops, readUninit, linPops, l_win, got, headWon>>
    /\ CasOutcome(LinkCasOk(t), {})
    /\ UNCHANGED <<ltVars, tsVars>>

\* lines 136-139: best-effort swing of tail to the new node, then return
PushSwing(t) ==
    /\ pc[t] = "push_swing"
    /\ tail' = IF TailCasOk(t) THEN l_new[t] ELSE tail
    /\ Return(t, Unit)
    /\ Unpin(t)
    /\ UNCHANGED <<head, next, data, nalloc, addr, op, calls, budget, pushCount>>
    /\ UNCHANGED <<retired, freed, dropVars, ghostVars>>
    /\ CasOutcome(TailCasOk(t), {t})
    /\ UNCHANGED linked
    /\ UNCHANGED <<ltVars, tsVars>>

\* ------------------------------------------------- try_pop and pop
\* tests::try_pop (lines 420-423): pin a guard and call Queue::try_pop once
TryPopStart(t) ==
    /\ CanCall(t)
    /\ calls' = calls + 1
    /\ op' = [op EXCEPT ![t] = "try_pop"]
    /\ ret' = [ret EXCEPT ![t] = Unit]
    /\ Goto(t, "pop_load_head")
    /\ nonEmptySeen' = [nonEmptySeen EXCEPT ![t] = AbsQ # <<>>]
    /\ UNCHANGED <<queueVars, l_head, l_tail, l_next, l_new, budget, pushCount>>
    /\ UNCHANGED <<epochVars, dropVars>>
    /\ UNCHANGED <<reads, payloadDrops, uaf, readUninit, linPops, l_win, got, headWon>>
    /\ UNCHANGED progVars
    /\ UNCHANGED <<ltVars, tsVars>>

\* line 188: pop pins one guard, then calls try_pop until it yields a value
PopStart(t) ==
    /\ CanCall(t)
    /\ calls' = calls + 1
    /\ op' = [op EXCEPT ![t] = "pop"]
    /\ ret' = [ret EXCEPT ![t] = Unit]
    /\ Goto(t, "pop_load_head")
    /\ nonEmptySeen' = [nonEmptySeen EXCEPT ![t] = AbsQ # <<>>]
    /\ UNCHANGED <<queueVars, l_head, l_tail, l_next, l_new, budget, pushCount>>
    /\ UNCHANGED <<epochVars, dropVars>>
    /\ UNCHANGED <<reads, payloadDrops, uaf, readUninit, linPops, l_win, got, headWon>>
    /\ UNCHANGED progVars
    /\ UNCHANGED <<ltVars, tsVars>>

RetriesNever(t) == FALSE
\* lines 189-193: inside pop a None of try_pop starts the next attempt
RetriesOnNone(t) == op[t] = "pop"

RetryRepins(t) == [n \in Nodes |-> blockers[n] \ {t}]
\* lines 188-190: every attempt of pop runs under the guard pinned at line 188,
\* so the thread keeps holding back what it held back before
RetryGuard(t) == blockers

\* try_pop yields None: the caller of try_pop gets it; the loop of pop
\* (lines 189-193) sees it (ret[t]) and calls try_pop again under the same guard
PopNone(t) ==
    IF ~RetriesOnNone(t)
    THEN /\ Return(t, None)
         /\ Unpin(t)
         /\ nonEmptySeen' = [nonEmptySeen EXCEPT ![t] = FALSE]
         /\ casSeen' = [casSeen EXCEPT ![t] = FALSE]
    ELSE /\ Goto(t, "pop_load_head")
         /\ ret' = [ret EXCEPT ![t] = None]
         /\ l_head' = [l_head EXCEPT ![t] = Null]
         /\ l_tail' = [l_tail EXCEPT ![t] = Null]
         /\ l_next' = [l_next EXCEPT ![t] = Null]
         /\ blockers' = RetryGuard(t)
         /\ UNCHANGED <<l_new, nonEmptySeen, casSeen>>

\* line 143
PopLoadHead(t) ==
    /\ pc[t] = "pop_load_head"
    /\ l_head' = [l_head EXCEPT ![t] = head]
    /\ Goto(t, "pop_load_tail")
    /\ UNCHANGED <<queueVars, op, l_tail, l_next, l_new, ret, calls, budget, pushCount>>
    /\ UNCHANGED <<epochVars, dropVars, ghostVars>>
    /\ IterationBegins(t)
    /\ UNCHANGED <<linked, casCount>>
    /\ UNCHANGED <<ltVars, tsVars>>

SameNodeNever(t) == FALSE
\* line 149: `head == tail` on the head loaded at line 143 and the tail loaded
\* at line 144
SameNode(t) == AddrOf(l_head[t]) = AddrOf(tail)

\* lines 144-149: load tail and compare it with the loaded head
PopLoadTail(t) ==
    /\ pc[t] = "pop_load_tail"
    /\ l_tail' = [l_tail EXCEPT ![t] = tail]
    /\ Goto(t, IF SameNode(t) THEN "pop_tail_next" ELSE "pop_load_next")
    /\ UNCHANGED <<queueVars, op, l_head, l_next, l_new, ret, calls, budget, pushCount>>
    /\ UNCHANGED <<epochVars, dropVars, ghostVars>>
    /\ UNCHANGED progVars
    /\ UNCHANGED <<ltVars, tsVars>>

HeadIsTailMeansEmpty(t) == TRUE
TailNextNeverNull(t) == FALSE
\* line 156: next.is_null() on the successor of the node head and tail share
TailNextNull(t) == next[l_tail[t]] = Null

\* lines 152-158: head == tail: tail.next null means the queue is empty
PopTailNext(t) ==
    /\ pc[t] = "pop_tail_next"
    /\ Deref(l_tail[t])
    /\ IF TailNextNull(t)
       THEN PopNone(t)
       ELSE /\ l_next' = [l_next EXCEPT ![t] = next[l_tail[t]]]
            /\ Goto(t, "pop_help")
            /\ UNCHANGED <<l_head, l_tail, l_new, ret, blockers, nonEmptySeen, casSeen>>
    /\ UNCHANGED <<queueVars, op, calls, budget, pushCount>>
    /\ UNCHANGED <<retired, freed, dropVars>>
    /\ UNCHANGED <<reads, payloadDrops, readUninit, linPops, l_win, got, headWon>>
    /\ UNCHANGED <<linked, casCount>>
    /\ UNCHANGED <<ltVars, tsVars>>

\* line 162: help the lagging tail forward, whatever the outcome
PopHelp(t) ==
    /\ pc[t] = "pop_help"
    /\ tail' = IF TailCasOk(t) THEN HelpTarget(t) ELSE tail
    /\ Goto(t, "pop_load_next")
    /\ UNCHANGED <<head, next, data, nalloc, addr>>
    /\ UNCHANGED <<op, l_head, l_tail, l_next, l_new, ret, calls, budget, pushCount>>
    /\ UNCHANGED <<epochVars, dropVars, ghostVars>>
    /\ CasOutcome(TailCasOk(t), {})
    /\ UNCHANGED linked
    /\ UNCHANGED <<ltVars, tsVars>>

\* lines 168-172: head.deref().next.load; `next.as_ref()?` returns None on null
PopLoadNext(t) ==
    /\ pc[t] = "pop_load_next"
    /\ Deref(l_head[t])
    /\ IF next[l_head[t]] = Null
       THEN PopNone(t)
       ELSE /\ l_next' = [l_next EXCEPT ![t] = next[l_head[t]]]
            /\ Goto(t, "pop_cas_head")
            /\ UNCHANGED <<l_head, l_tail, l_new, ret, blockers, nonEmptySeen, casSeen>>
    /\ UNCHANGED <<queueVars, op, calls, budget, pushCount>>
    /\ UNCHANGED <<retired, freed, dropVars>>
    /\ UNCHANGED <<reads, payloadDrops, readUninit, linPops, l_win, got, headWon>>
    /\ UNCHANGED <<linked, casCount>>
    /\ UNCHANGED <<ltVars, tsVars>>

HeadCasAlways(t) == TRUE
\* line 173: the compare_exchange on Queue.head expects the loaded head
HeadCasOk(t) == AddrOf(head) = AddrOf(l_head[t])

NewHeadIsTail(t) == l_tail[t]
\* line 173: the new value of the compare_exchange on head is the loaded next
NewHead(t) == l_next[t]

\* lines 173-176: advance head to its successor, or retry.  linPops records the
\* front of the queue at each successful compare_exchange.
PopCasHead(t) ==
    /\ pc[t] = "pop_cas_head"
    /\ IF HeadCasOk(t)
       THEN /\ head' = NewHead(t)
            /\ headWon' = [headWon EXCEPT ![l_head[t]] = Append(@, t)]
            /\ linPops' = Append(linPops, IF AbsQ # <<>> THEN Head(AbsQ) ELSE None)
            /\ l_win' = [l_win EXCEPT ![t] = Len(linPops) + 1]
            /\ Goto(t, "pop_read")
            /\ UNCHANGED <<l_head, l_tail, l_next>>
       ELSE /\ Goto(t, "pop_load_head")
            /\ l_head' = [l_head EXCEPT ![t] = Null]
            /\ l_tail' = [l_tail EXCEPT ![t] = Null]
            /\ l_next' = [l_next EXCEPT ![t] = Null]
            /\ UNCHANGED <<head, linPops, l_win, headWon>>
    /\ UNCHANGED <<tail, next, data, nalloc, addr>>
    /\ UNCHANGED <<op, l_new, ret, calls, budget, pushCount>>
    /\ UNCHANGED <<epochVars, dropVars>>
    /\ UNCHANGED <<reads, payloadDrops, uaf, readUninit, got, nonEmptySeen>>
    /\ CasOutcome(HeadCasOk(t), {})
    /\ UNCHANGED linked
    /\ UNCHANGED <<ltVars, tsVars>>

PopPayloadOfHead(t) == l_head[t]
\* line 181: the node whose payload the winner moves out
PopPayloadNode(t) == l_next[t]

\* line 181: next_ref.data.assume_init_read(); ret[t] holds the local `data`
PopRead(t) ==
    /\ pc[t] = "pop_read"
    /\ Deref(PopPayloadNode(t))
    /\ ret' = [ret EXCEPT ![t] = data[PopPayloadNode(t)]]
    /\ reads' = [reads EXCEPT ![PopPayloadNode(t)] = @ + 1]
    /\ readUninit' = (readUninit \/ data[PopPayloadNode(t)] = Uninit)
    /\ Goto(t, "pop_retire")
    /\ UNCHANGED <<queueVars, op, l_head, l_tail, l_next, l_new, calls, budget, pushCount>>
    /\ UNCHANGED <<epochVars, dropVars>>
    /\ UNCHANGED <<payloadDrops, linPops, l_win, got, headWon, nonEmptySeen>>
    /\ UNCHANGED progVars
    /\ UNCHANGED <<ltVars, tsVars>>

RetireNext(t) == l_next[t]
\* line 182: the node handed to guard.defer_destroy
RetireNode(t) == l_head[t]

\* the threads whose guards hold back a node retired now
RetireBlockers == PinnedThreads

\* lines 182-183: retire the old sentinel and return Some(data); the guard of
\* the caller is dropped on return
PopRetire(t) ==
    /\ pc[t] = "pop_retire"
    /\ retired' = [retired EXCEPT ![RetireNode(t)] = @ + 1]
    /\ blockers' = [n \in Nodes |->
                      (IF n = RetireNode(t) THEN blockers[n] \cup RetireBlockers
                       ELSE blockers[n]) \ {t}]
    /\ got' = [got EXCEPT ![t] = Append(@, <<ret[t], l_win[t]>>)]
    /\ l_win' = [l_win EXCEPT ![t] = 0]
    /\ Return(t, ret[t])
    /\ nonEmptySeen' = [nonEmptySeen EXCEPT ![t] = FALSE]
    /\ UNCHANGED <<queueVars, op, calls, budget, pushCount>>
    /\ UNCHANGED <<freed, dropVars>>
    /\ UNCHANGED <<reads, payloadDrops, uaf, readUninit, linPops, headWon>>
    /\ CasOutcome(FALSE, {t})
    /\ UNCHANGED linked
    /\ UNCHANGED <<ltVars, tsVars>>

\* ------------------------------------------------------------ is_empty
\* line 92
IsEmptyStart(t) ==
    /\ CanCall(t)
    /\ calls' = calls + 1
    /\ op' = [op EXCEPT ![t] = "is_empty"]
    /\ ret' = [ret EXCEPT ![t] = Unit]
    /\ Goto(t, "ie_load_head")
    /\ nonEmptySeen' = [nonEmptySeen EXCEPT ![t] = AbsQ # <<>>]
    /\ UNCHANGED <<queueVars, l_head, l_tail, l_next, l_new, budget, pushCount>>
    /\ UNCHANGED <<epochVars, dropVars>>
    /\ UNCHANGED <<reads, payloadDrops, uaf, readUninit, linPops, l_win, got, headWon>>
    /\ UNCHANGED progVars
    /\ UNCHANGED <<ltVars, tsVars>>

\* line 93
IsEmptyLoadHead(t) ==
    /\ pc[t] = "ie_load_head"
    /\ l_head' = [l_head EXCEPT ![t] = head]
    /\ Goto(t, "ie_load_next")
    /\ UNCHANGED <<queueVars, op, l_tail, l_next, l_new, ret, calls, budget, pushCount>>
    /\ UNCHANGED <<epochVars, dropVars, ghostVars>>
    /\ UNCHANGED progVars
    /\ UNCHANGED <<ltVars, tsVars>>

IsEmptyAtSentinel(t) == next[Dummy] = Null
\* line 97: the answer is next.is_null() for the successor of the loaded head
IsEmptyAnswer(t) == next[l_head[t]] = Null

IsEmptyHelpsTail(t) == IF next[tail] # Null THEN next[tail] ELSE tail
\* lines 92-97: is_empty only loads; it does not help a lagging tail forward
IsEmptyLeavesTail(t) == tail

\* lines 96-98
IsEmptyLoadNext(t) ==
    /\ pc[t] = "ie_load_next"
    /\ Deref(l_head[t])
    /\ Return(t, BoolRet(IsEmptyAnswer(t)))
    /\ Unpin(t)
    /\ nonEmptySeen' = [nonEmptySeen EXCEPT ![t] = FALSE]
    /\ tail' = IsEmptyLeavesTail(t)
    /\ UNCHANGED <<head, next, data, nalloc, addr, op, calls, budget, pushCount>>
    /\ UNCHANGED <<retired, freed, dropVars>>
    /\ UNCHANGED <<reads, payloadDrops, readUninit, linPops, l_win, got, headWon>>
    /\ UNCHANGED progVars
    /\ UNCHANGED <<ltVars, tsVars>>

\* ------------------------------------------------------- the reclaimer
\* crossbeam_epoch runs a deferred destruction once no guard that was pinned
\* when the node was retired is still pinned.  Destroying a Node does not
\* touch its MaybeUninit payload.
Reclaim(n) ==
    /\ retired[n] > freed[n]
    /\ blockers[n] = {}
    /\ freed' = [freed EXCEPT ![n] = @ + 1]
    /\ UNCHANGED <<queueVars, threadVars, retired, blockers, dropVars, ghostVars>>
    /\ UNCHANGED progVars
    /\ UNCHANGED <<ltVars, tsVars>>

\* ---------------------------------------------------------------- Drop
DropFromHead == head
\* line 60: the first node whose payload Drop disposes
DropFirst == next[head]

\* lines 55-61: drop(&mut self) needs exclusive ownership: no call in flight
DropStart ==
    /\ Live
    /\ \A t \in Threads : pc[t] = "idle"
    /\ Deref(head)
    /\ dropChain' = Chain
    /\ dropCur' = DropFirst
    /\ next' = [next EXCEPT ![head] = Null]
    /\ phase' = "dropping"
    /\ UNCHANGED <<head, tail, data, nalloc, addr, threadVars, epochVars>>
    /\ UNCHANGED <<reads, payloadDrops, readUninit, linPops, l_win, got, headWon, nonEmptySeen>>
    /\ UNCHANGED progVars
    /\ UNCHANGED <<ltVars, tsVars>>

\* lines 62-70: move the payload out and drop it, take next, free the box
DropNode ==
    /\ phase = "dropping"
    /\ dropCur # Null
    /\ Deref(dropCur)
    /\ reads' = [reads EXCEPT ![dropCur] = @ + 1]
    /\ payloadDrops' = [payloadDrops EXCEPT ![dropCur] = @ + 1]
    /\ readUninit' = (readUninit \/ data[dropCur] = Uninit)
    /\ freed' = [freed EXCEPT ![dropCur] = @ + 1]
    /\ dropCur' = next[dropCur]
    /\ UNCHANGED <<queueVars, threadVars, retired, blockers, phase, dropChain>>
    /\ UNCHANGED <<linPops, l_win, got, headWon, nonEmptySeen>>
    /\ UNCHANGED progVars
    /\ UNCHANGED <<ltVars, tsVars>>

\* line 71: the Owned head goes out of scope and frees the sentinel
DropEnd ==
    /\ phase = "dropping"
    /\ dropCur = Null
    /\ Deref(head)
    /\ freed' = [freed EXCEPT ![head] = @ + 1]
    /\ phase' = "dropped"
    /\ UNCHANGED <<queueVars, threadVars, retired, blockers, dropCur, dropChain>>
    /\ UNCHANGED <<reads, payloadDrops, readUninit, linPops, l_win, got, headWon, nonEmptySeen>>
    /\ UNCHANGED progVars
    /\ UNCHANGED <<ltVars, tsVars>>

\* ======================================================== LazyTransform
LtLive == lt_phase = "live"
LtCanCall(t) == LtLive /\ lt_pc[t] = "idle" /\ lt_calls < lt_budget

\* the threads inside a guard: set_source from line 122, get from guard()
LtActive == {u \in Threads : lt_pc[u] \notin {"idle", "panicked"}}

\* The collector reclaims a retired context once every guard that was active
\* when it was retired has been dropped.  guard.retire counts the guard of the
\* retiring thread t (own), collector.retire does not; leaves: the guard of t
\* is dropped in this step.  cs are the contexts retired in this step.
Guards(t, cs, own, leaves) ==
    lt_blockers' =
        [c \in Ctxs |->
            (IF c \in cs
             THEN lt_blockers[c] \cup (LtActive \ (IF own THEN {} ELSE {t}))
             ELSE lt_blockers[c]) \ (IF leaves THEN {t} ELSE {})]

\* retire(c): one more retire call for context c
Retire(c) == ctx_retired' = [ctx_retired EXCEPT ![c] = @ + 1]

LtGoto(t, label) == lt_pc' = [lt_pc EXCEPT ![t] = label]

\* the locals of the call of t die
LtClear(t) ==
    /\ new_seq' = [new_seq EXCEPT ![t] = 0]
    /\ cur_src' = [cur_src EXCEPT ![t] = Null]
    /\ new_src' = [new_src EXCEPT ![t] = Null]
    /\ taken' = [taken EXCEPT ![t] = Null]
    /\ cur_val' = [cur_val EXCEPT ![t] = Null]
    /\ new_val' = [new_val EXCEPT ![t] = Null]

\* the call of t returns v to its caller
LtReturn(t, v) ==
    /\ LtGoto(t, "idle")
    /\ lt_ret' = [lt_ret EXCEPT ![t] = v]
    /\ LtClear(t)

\* get returns Option v: a later get starts after a Some was handed out
GetReturn(t, v) ==
    /\ LtReturn(t, v)
    /\ anySome' = (anySome \/ v # LtNone)
    /\ afterSome' = afterSome

\* an assertion of the code fails: the thread panics at that line
LtPanic(t, line) ==
    /\ LtGoto(t, "panicked")
    /\ panics' = panics \cup {line}
    /\ UNCHANGED <<lt_ret, ltLocals>>

\* ---------------------------------------------------------- set_source
\* lines 115-122: draw the sequence number, allocate the SourceContext
SetSourceStart(t) ==
    /\ LtCanCall(t)
    /\ lt_calls' = lt_calls + 1
    /\ UNCHANGED lt_budget
    /\ lt_op' = [lt_op EXCEPT ![t] = "set_source"]
    /\ setCount' = [setCount EXCEPT ![t] = @ + 1]
    /\ seq_counter' = seq_counter + 1
    /\ new_seq' = [new_seq EXCEPT ![t] = seq_counter + 1]
    /\ nctx' = nctx + 1
    /\ ctx_seq' = [ctx_seq EXCEPT ![nctx + 1] = seq_counter + 1]
    /\ ctx_source' = [ctx_source EXCEPT ![nctx + 1] = Source(t, setCount[t] + 1)]
    /\ new_src' = [new_src EXCEPT ![t] = nctx + 1]
    /\ srcOf' = [srcOf EXCEPT ![seq_counter + 1] = Source(t, setCount[t] + 1)]
    /\ LtGoto(t, "ss_load")
    /\ quietGet' = [u \in Threads |-> FALSE]
    /\ UNCHANGED <<src_ctx, val_ctx, ctx_val, ctx_retired, lt_ret, lt_phase>>
    /\ UNCHANGED <<cur_src, taken, cur_val, new_val>>
    /\ UNCHANGED <<transforms, panics, anySome, afterSome>>
    /\ UNCHANGED lt_blockers
    /\ UNCHANGED <<msqVars, tsVars>>

\* line 123: the first expected value of the CAS is whatever src_ctx holds
SetSourceLoad(t) ==
    /\ lt_pc[t] = "ss_load"
    /\ cur_src' = [cur_src EXCEPT ![t] = src_ctx]
    /\ LtGoto(t, "ss_cas")
    /\ UNCHANGED <<ltShared, ltHeap, lt_op, lt_ret, lt_calls, lt_budget, setCount, lt_phase, ltGhost>>
    /\ UNCHANGED <<new_seq, new_src, taken, cur_val, new_val>>
    /\ UNCHANGED lt_blockers
    /\ UNCHANGED <<msqVars, tsVars>>

SrcCasAlways(t) == TRUE
\* lines 130 and 243: compare_exchange on src_ctx against the expected context
SrcCasOk(t) == src_ctx = cur_src[t]

\* lines 130-182: install the new source; on failure retry when ours is newer
\* than the context found, give up when it is older
SetSourceCas(t) ==
    /\ lt_pc[t] = "ss_cas"
    /\ IF SrcCasOk(t)
       THEN /\ src_ctx' = new_src[t]
            /\ IF cur_src[t] # Null THEN Retire(cur_src[t]) ELSE UNCHANGED ctx_retired
            /\ LtReturn(t, LtNone)
            /\ Guards(t, {cur_src[t]} \ {Null}, FALSE, TRUE)
            /\ UNCHANGED panics
       ELSE /\ src_ctx' = src_ctx
            /\ IF new_seq[t] = ctx_seq[src_ctx]
               THEN /\ LtPanic(t, "set_source:162")
                    /\ Guards(t, {}, FALSE, TRUE)
                    /\ UNCHANGED ctx_retired
               ELSE IF new_seq[t] > ctx_seq[src_ctx]
               THEN /\ cur_src' = [cur_src EXCEPT ![t] = src_ctx]
                    /\ UNCHANGED <<lt_pc, lt_ret, new_seq, new_src, taken, cur_val, new_val>>
                    /\ UNCHANGED <<ctx_retired, panics, lt_blockers>>
               ELSE /\ Retire(new_src[t])
                    /\ Guards(t, {new_src[t]}, FALSE, TRUE)
                    /\ LtReturn(t, LtNone)
                    /\ UNCHANGED panics
    /\ UNCHANGED <<seq_counter, val_ctx, ctx_seq, ctx_source, ctx_val, nctx>>
    /\ UNCHANGED <<lt_op, lt_calls, lt_budget, setCount, lt_phase>>
    /\ UNCHANGED <<srcOf, transforms, anySome, afterSome, quietGet>>
    /\ UNCHANGED <<msqVars, tsVars>>

\* ----------------------------------------------------------------- get
\* lines 186-189: guard() enters the collector, then get runs under the guard
GetStart(t) ==
    /\ LtCanCall(t)
    /\ lt_calls' = lt_calls + 1
    /\ UNCHANGED lt_budget
    /\ lt_op' = [lt_op EXCEPT ![t] = "get"]
    /\ afterSome' = [afterSome EXCEPT ![t] = anySome]
    /\ quietGet' = [u \in Threads |-> u = t /\ \A w \in Threads \ {t} : lt_pc[w] = "idle"]
    /\ LtGoto(t, "get_load_src")
    /\ UNCHANGED <<ltShared, ltHeap, ltLocals, lt_ret, setCount, lt_phase>>
    /\ UNCHANGED <<srcOf, transforms, panics, anySome>>
    /\ UNCHANGED lt_blockers
    /\ UNCHANGED <<msqVars, tsVars>>

SourceNeverThere(c) == FALSE
\* line 198: src_ref.is_some() on the context loaded
HasSource(c) == ctx_source[c] # NoSource

\* lines 192-203 and 239-240: load src_ctx; null returns None; a source that
\* is still there starts take_source, which allocates the marker context
\* (seq, None); a source already taken goes on to the cached value
GetLoadSrc(t) ==
    /\ lt_pc[t] = "get_load_src"
    /\ IF src_ctx = Null
       THEN /\ GetReturn(t, LtNone)
            /\ Guards(t, {}, TRUE, TRUE)
            /\ UNCHANGED <<ctx_seq, ctx_source, nctx>>
       ELSE IF HasSource(src_ctx)
       THEN /\ cur_src' = [cur_src EXCEPT ![t] = src_ctx]
            /\ new_seq' = [new_seq EXCEPT ![t] = ctx_seq[src_ctx]]
            /\ nctx' = nctx + 1
            /\ ctx_seq' = [ctx_seq EXCEPT ![nctx + 1] = ctx_seq[src_ctx]]
            /\ ctx_source' = [ctx_source EXCEPT ![nctx + 1] = NoSource]
            /\ new_src' = [new_src EXCEPT ![t] = nctx + 1]
            /\ LtGoto(t, "ts_cas")
            /\ UNCHANGED <<lt_ret, taken, cur_val, new_val, anySome, afterSome, lt_blockers>>
       ELSE /\ LtGoto(t, "get_load_val")
            /\ UNCHANGED <<lt_ret, ltLocals, anySome, afterSome, lt_blockers>>
            /\ UNCHANGED <<ctx_seq, ctx_source, nctx>>
    /\ UNCHANGED <<ltShared, ctx_val, ctx_retired>>
    /\ UNCHANGED <<lt_op, lt_calls, lt_budget, setCount, lt_phase>>
    /\ UNCHANGED <<srcOf, transforms, panics, quietGet>>
    /\ UNCHANGED <<msqVars, tsVars>>

\* lines 243-308: take_source swaps the marker in for the source it saw.  On
\* failure it follows a newer source that is still there and gives up when
\* the context found has been taken.
TakeSourceCas(t) ==
    /\ lt_pc[t] = "ts_cas"
    /\ IF SrcCasOk(t)
       THEN /\ src_ctx' = new_src[t]
            /\ Retire(cur_src[t])
            /\ Guards(t, {cur_src[t]}, TRUE, FALSE)
            /\ taken' = [taken EXCEPT ![t] = cur_src[t]]
            /\ LtGoto(t, "get_transform")
            /\ UNCHANGED <<lt_ret, new_seq, cur_src, new_src, cur_val, new_val>>
            /\ UNCHANGED <<ctx_seq, panics>>
       ELSE /\ src_ctx' = src_ctx
            /\ IF ~(new_seq[t] <= ctx_seq[src_ctx])
               THEN /\ LtPanic(t, "take_source:275")
                    /\ Guards(t, {}, TRUE, TRUE)
                    /\ UNCHANGED <<ctx_seq, ctx_retired>>
               ELSE IF new_seq[t] < ctx_seq[src_ctx] /\ ctx_source[src_ctx] # NoSource
               THEN /\ ctx_seq' = [ctx_seq EXCEPT ![new_src[t]] = ctx_seq[src_ctx]]
                    /\ cur_src' = [cur_src EXCEPT ![t] = src_ctx]
                    /\ UNCHANGED <<lt_pc, lt_ret, new_seq, new_src, taken, cur_val, new_val>>
                    /\ UNCHANGED <<ctx_retired, panics, lt_blockers>>
               ELSE IF new_seq[t] = ctx_seq[src_ctx] /\ ctx_source[src_ctx] # NoSource
               THEN /\ LtPanic(t, "take_source:303")
                    /\ Guards(t, {}, TRUE, TRUE)
                    /\ UNCHANGED <<ctx_seq, ctx_retired>>
               ELSE /\ Retire(new_src[t])
                    /\ Guards(t, {new_src[t]}, TRUE, FALSE)
                    /\ LtGoto(t, "get_load_val")
                    /\ UNCHANGED <<lt_ret, ltLocals, ctx_seq, panics>>
    /\ UNCHANGED <<seq_counter, val_ctx, ctx_source, ctx_val, nctx>>
    /\ UNCHANGED <<lt_op, lt_calls, lt_budget, setCount, lt_phase>>
    /\ UNCHANGED <<srcOf, transforms, anySome, afterSome, quietGet>>
    /\ UNCHANGED <<msqVars, tsVars>>

\* lines 222-229 and 316-318: read seq and source of the context taken, run
\* the transform, allocate the ValueContext for the result
GetTransform(t) ==
    /\ lt_pc[t] = "get_transform"
    /\ transforms' = [transforms EXCEPT ![ctx_seq[taken[t]]] = @ + 1]
    /\ nctx' = nctx + 1
    /\ ctx_seq' = [ctx_seq EXCEPT ![nctx + 1] = ctx_seq[taken[t]]]
    /\ ctx_val' = [ctx_val EXCEPT ![nctx + 1] = Transform(ctx_source[taken[t]])]
    /\ new_val' = [new_val EXCEPT ![t] = nctx + 1]
    /\ LtGoto(t, "sv_load")
    /\ UNCHANGED <<ltShared, ctx_source, ctx_retired>>
    /\ UNCHANGED <<lt_op, lt_ret, lt_calls, lt_budget, setCount, lt_phase>>
    /\ UNCHANGED <<new_seq, cur_src, new_src, taken, cur_val>>
    /\ UNCHANGED <<srcOf, panics, anySome, afterSome, quietGet>>
    /\ UNCHANGED lt_blockers
    /\ UNCHANGED <<msqVars, tsVars>>

\* lines 320-338: store_val loads val_ctx; a cached value with a higher
\* sequence number wins and ours is retired
StoreValLoad(t) ==
    /\ lt_pc[t] = "sv_load"
    /\ IF val_ctx # Null /\ ctx_seq[new_val[t]] = ctx_seq[val_ctx]
       THEN /\ LtPanic(t, "store_val:328")
            /\ Guards(t, {}, TRUE, TRUE)
            /\ UNCHANGED <<ctx_retired, anySome, afterSome>>
       ELSE IF val_ctx # Null /\ ctx_seq[new_val[t]] < ctx_seq[val_ctx]
       THEN /\ Retire(new_val[t])
            /\ Guards(t, {new_val[t]}, TRUE, TRUE)
            /\ GetReturn(t, ctx_val[val_ctx])
            /\ UNCHANGED panics
       ELSE /\ cur_val' = [cur_val EXCEPT ![t] = val_ctx]
            /\ LtGoto(t, "sv_cas")
            /\ UNCHANGED <<lt_ret, new_seq, cur_src, new_src, taken, new_val>>
            /\ UNCHANGED <<ctx_retired, panics, anySome, afterSome, lt_blockers>>
    /\ UNCHANGED <<ltShared, ctx_seq, ctx_source, ctx_val, nctx>>
    /\ UNCHANGED <<lt_op, lt_calls, lt_budget, setCount, lt_phase>>
    /\ UNCHANGED <<srcOf, transforms, quietGet>>
    /\ UNCHANGED <<msqVars, tsVars>>

ValCasAlways(t) == TRUE
\* line 342: compare_exchange on val_ctx against the expected context
ValCasOk(t) == val_ctx = cur_val[t]

\* lines 341-379: install our value; on failure retry when ours is newer than
\* the value found, else retire ours and return the value found
StoreValCas(t) ==
    /\ lt_pc[t] = "sv_cas"
    /\ IF ValCasOk(t)
       THEN /\ val_ctx' = new_val[t]
            /\ IF cur_val[t] # Null THEN Retire(cur_val[t]) ELSE UNCHANGED ctx_retired
            /\ Guards(t, {cur_val[t]} \ {Null}, TRUE, TRUE)
            /\ GetReturn(t, ctx_val[new_val[t]])
            /\ UNCHANGED panics
       ELSE /\ val_ctx' = val_ctx
            /\ IF ctx_seq[new_val[t]] = ctx_seq[val_ctx]
               THEN /\ LtPanic(t, "store_val:363")
                    /\ Guards(t, {}, TRUE, TRUE)
                    /\ UNCHANGED <<ctx_retired, anySome, afterSome>>
               ELSE IF ctx_seq[new_val[t]] > ctx_seq[val_ctx]
               THEN /\ cur_val' = [cur_val EXCEPT ![t] = val_ctx]
                    /\ UNCHANGED <<lt_pc, lt_ret, new_seq, cur_src, new_src, taken, new_val>>
                    /\ UNCHANGED <<ctx_retired, panics, anySome, afterSome, lt_blockers>>
               ELSE /\ Retire(new_val[t])
                    /\ Guards(t, {new_val[t]}, TRUE, TRUE)
                    /\ GetReturn(t, ctx_val[val_ctx])
                    /\ UNCHANGED panics
    /\ UNCHANGED <<seq_counter, src_ctx, ctx_seq, ctx_source, ctx_val, nctx>>
    /\ UNCHANGED <<lt_op, lt_calls, lt_budget, setCount, lt_phase>>
    /\ UNCHANGED <<srcOf, transforms, quietGet>>
    /\ UNCHANGED <<msqVars, tsVars>>

\* lines 205-209: no transform of ours: return the cached value, if any
GetLoadVal(t) ==
    /\ lt_pc[t] = "get_load_val"
    /\ GetReturn(t, IF val_ctx = Null THEN LtNone ELSE ctx_val[val_ctx])
    /\ UNCHANGED <<ltShared, ltHeap>>
    /\ UNCHANGED <<lt_op, lt_calls, lt_budget, setCount, lt_phase>>
    /\ UNCHANGED <<srcOf, transforms, panics, quietGet>>
    /\ Guards(t, {}, TRUE, TRUE)
    /\ UNCHANGED <<msqVars, tsVars>>

\* lines 68-92: Drop retires the contexts still installed; &mut self: no call
\* is in flight
LtDrop ==
    /\ LtLive
    /\ \A t \in Threads : lt_pc[t] \in {"idle", "panicked"}
    /\ ctx_retired' = [c \in Ctxs |->
                         IF c \in {val_ctx, src_ctx} THEN ctx_retired[c] + 1
                         ELSE ctx_retired[c]]
    /\ lt_phase' = "dropped"
    /\ UNCHANGED <<ltShared, ctx_seq, ctx_source, ctx_val, nctx>>
    /\ UNCHANGED <<ltLocals, ltThread, ltGhost>>
    /\ UNCHANGED lt_blockers
    /\ UNCHANGED <<msqVars, tsVars>>

\* ----------------------------------------------------- specification
ThreadStep(t) ==
    \/ PushStart(t) \/ PushLoadTail(t) \/ PushLoadNext(t) \/ PushHelp(t)
    \/ PushLink(t) \/ PushSwing(t)
    \/ TryPopStart(t) \/ PopStart(t) \/ PopLoadHead(t) \/ PopLoadTail(t)
    \/ PopTailNext(t) \/ PopHelp(t) \/ PopLoadNext(t) \/ PopCasHead(t)
    \/ PopRead(t) \/ PopRetire(t)
    \/ IsEmptyStart(t) \/ IsEmptyLoadHead(t) \/ IsEmptyLoadNext(t)

Next ==
    \/ \E t \in Threads : ThreadStep(t)
    \/ \E n \in Nodes : Reclaim(n)
    \/ DropStart \/ DropNode \/ DropEnd

Spec == Init /\ [][Next]_vars

LtThreadStep(t) ==
    \/ SetSourceStart(t) \/ SetSourceLoad(t) \/ SetSourceCas(t)
    \/ GetStart(t) \/ GetLoadSrc(t) \/ TakeSourceCas(t) \/ GetTransform(t)
    \/ StoreValLoad(t) \/ StoreValCas(t) \/ GetLoadVal(t)

LtNext ==
    \/ \E t \in Threads : LtThreadStep(t)
    \/ LtDrop

\* LazyTransform used by the threads
LtSpec == Init /\ [][LtNext]_vars

\* the same with one more call, for the runs that need five
LtLongSpec == InitOf(MaxCalls, MaxLtCallsLong) /\ [][LtNext]_vars

\* ------------------------------------------------------ Treiber stack
\* pointers are compared by address
TsAddrOf(n) == IF n = Null THEN Null ELSE ts_addr[n]

\* the threads holding a guard: push from line 71, pop from line 99
TsPinned == {u \in Threads : ts_pc[u] # "idle"}

\* Owned::new: the allocator hands out the lowest address never handed out
\* or the address of a node that was freed, never one of a node still allocated
TsAllocAddrs ==
    LET inUse == {ts_addr[n] : n \in {k \in 1..ts_nalloc : ts_freed[k] = 0}}
        fresh == CHOOSE a \in TsNodes :
                    /\ \A n \in 1..ts_nalloc : ts_addr[n] # a
                    /\ \A b \in 1..(a - 1) : \E n \in 1..ts_nalloc : ts_addr[n] = b
    IN  ({fresh} \cup {ts_addr[n] : n \in 1..ts_nalloc}) \ inUse

\* the guard of t is dropped when its call returns
TsUnpin(t, b) == [n \in TsNodes |-> b[n] \ {t}]

TsReturn(t, v) ==
    /\ ts_pc' = [ts_pc EXCEPT ![t] = "idle"]
    /\ ts_ret' = [ts_ret EXCEPT ![t] = v]
    /\ ts_node' = [ts_node EXCEPT ![t] = Null]
    /\ ts_old' = [ts_old EXCEPT ![t] = Null]
    /\ ts_new' = [ts_new EXCEPT ![t] = Null]

\* a Node is read through a pointer: it must not have been freed
TsDeref(n) == ts_uaf' = (ts_uaf \/ ts_freed[n] > 0)

\* Node::data is ManuallyDrop<T>: destroying a Node does not drop its payload
TsNodeDropsDataPlain == TRUE
TsNodeDropsData == FALSE

\* what destroying the nodes in ns adds to the payloads dropped
TsDestroyed(d, ns) ==
    [q \in TsNodes |->
        IF TsNodeDropsData /\ \E n \in ns : ts_data[n] = q THEN d[q] + 1 ELSE d[q]]

\* head.compare_exchange(old_head, _) of push and pop succeeds
TsCasOk(t) == TsAddrOf(ts_head) = TsAddrOf(ts_old[t])

\* push: Owned::new(Node::new(data, null)) and epoch::pin (lines 68-71)
TsPushStart(t) ==
    /\ ts_phase = "live"
    /\ ts_pc[t] = "idle"
    /\ ts_calls < MaxTsCalls
    /\ ts_nalloc < MaxTsCalls
    /\ \E a \in TsAllocAddrs :
        LET n == ts_nalloc + 1 IN
        /\ ts_nalloc' = n
        /\ ts_addr' = [ts_addr EXCEPT ![n] = a]
        /\ ts_data' = [ts_data EXCEPT ![n] = n]
        /\ ts_prev' = [ts_prev EXCEPT ![n] = Null]
        /\ ts_node' = [ts_node EXCEPT ![t] = n]
    /\ ts_pc' = [ts_pc EXCEPT ![t] = "push_load"]
    /\ ts_op' = [ts_op EXCEPT ![t] = "push"]
    /\ ts_calls' = ts_calls + 1
    /\ UNCHANGED <<ts_head, ts_old, ts_new, ts_ret, tsEpoch, tsDrop, tsGhost>>
    /\ UNCHANGED <<msqVars, ltVars>>

\* push: old_head = head.load; node.prev.store(old_head) (lines 74-83)
TsPushLoad(t) ==
    /\ ts_pc[t] = "push_load"
    /\ ts_old' = [ts_old EXCEPT ![t] = ts_head]
    /\ ts_prev' = [ts_prev EXCEPT ![ts_node[t]] = ts_head]
    /\ ts_pc' = [ts_pc EXCEPT ![t] = "push_cas"]
    /\ UNCHANGED <<ts_head, ts_data, ts_nalloc, ts_addr, ts_op, ts_calls, ts_node,
                   ts_new, ts_ret, tsEpoch, tsDrop, tsGhost>>
    /\ UNCHANGED <<msqVars, ltVars>>

\* push: head.compare_exchange(old_head, node) (lines 85-94)
TsPushCas(t) ==
    /\ ts_pc[t] = "push_cas"
    /\ IF TsCasOk(t)
       THEN /\ ts_head' = ts_node[t]
            /\ TsReturn(t, ts_ret[t])
            /\ ts_blockers' = TsUnpin(t, ts_blockers)
       ELSE /\ ts_pc' = [ts_pc EXCEPT ![t] = "push_load"]
            /\ UNCHANGED <<ts_head, ts_node, ts_old, ts_new, ts_ret, ts_blockers>>
    /\ UNCHANGED <<ts_prev, ts_data, ts_nalloc, ts_addr, ts_op, ts_calls,
                   ts_retired, ts_freed, tsDrop, tsGhost>>
    /\ UNCHANGED <<msqVars, ltVars>>

\* pop: epoch::pin (line 99)
TsPopStart(t) ==
    /\ ts_phase = "live"
    /\ ts_pc[t] = "idle"
    /\ ts_calls < MaxTsCalls
    /\ ts_pc' = [ts_pc EXCEPT ![t] = "pop_load"]
    /\ ts_op' = [ts_op EXCEPT ![t] = "pop"]
    /\ ts_calls' = ts_calls + 1
    /\ UNCHANGED <<tsShared, ts_node, ts_old, ts_new, ts_ret, tsEpoch, tsDrop, tsGhost>>
    /\ UNCHANGED <<msqVars, ltVars>>

\* pop: old_head = head.load; old_head.as_ref()? (lines 102-112)
TsPopLoad(t) ==
    /\ ts_pc[t] = "pop_load"
    /\ IF ts_head = Null
       THEN /\ TsReturn(t, 0)
            /\ ts_blockers' = TsUnpin(t, ts_blockers)
       ELSE /\ ts_old' = [ts_old EXCEPT ![t] = ts_head]
            /\ ts_pc' = [ts_pc EXCEPT ![t] = "pop_prev"]
            /\ UNCHANGED <<ts_node, ts_new, ts_ret, ts_blockers>>
    /\ UNCHANGED <<tsShared, ts_op, ts_calls, ts_retired, ts_freed, tsDrop, tsGhost>>
    /\ UNCHANGED <<msqVars, ltVars>>

\* pop: new_head = node.prev.load (line 121)
TsPopPrev(t) ==
    /\ ts_pc[t] = "pop_prev"
    /\ ts_new' = [ts_new EXCEPT ![t] = ts_prev[ts_old[t]]]
    /\ TsDeref(ts_old[t])
    /\ ts_pc' = [ts_pc EXCEPT ![t] = "pop_cas"]
    /\ UNCHANGED <<tsShared, ts_op, ts_calls, ts_node, ts_old, ts_ret, tsEpoch, tsDrop,
                   ts_returned, ts_dropped>>
    /\ UNCHANGED <<msqVars, ltVars>>

\* pop: head.compare_exchange(old_head, new_head); on success ptr::read of
\* the data, guard.defer_destroy(old_head) and return (lines 122-135)
TsPopCas(t) ==
    /\ ts_pc[t] = "pop_cas"
    /\ IF TsCasOk(t)
       THEN LET n == ts_old[t] IN
            /\ ts_head' = ts_new[t]
            /\ TsDeref(n)
            /\ ts_returned' = [ts_returned EXCEPT ![ts_data[n]] = @ + 1]
            /\ ts_retired' = [ts_retired EXCEPT ![n] = @ + 1]
            /\ ts_blockers' = TsUnpin(t, [ts_blockers EXCEPT ![n] = @ \cup TsPinned])
            /\ TsReturn(t, ts_data[n])
       ELSE /\ ts_pc' = [ts_pc EXCEPT ![t] = "pop_load"]
            /\ UNCHANGED <<ts_head, ts_node, ts_old, ts_new, ts_ret, ts_retired,
                           ts_blockers, ts_returned, ts_uaf>>
    /\ UNCHANGED <<ts_prev, ts_data, ts_nalloc, ts_addr, ts_op, ts_calls, ts_freed,
                   tsDrop, ts_dropped>>
    /\ UNCHANGED <<msqVars, ltVars>>

\* the collector destroys a node passed to defer_destroy once every guard
\* that was pinned at that time has been dropped
TsReclaim(n) ==
    /\ ts_retired[n] > ts_freed[n]
    /\ ts_blockers[n] = {}
    /\ ts_freed' = [ts_freed EXCEPT ![n] = @ + 1]
    /\ ts_dropped' = TsDestroyed(ts_dropped, {n})
    /\ UNCHANGED <<tsShared, tsThread, ts_retired, ts_blockers, tsDrop, ts_returned, ts_uaf>>
    /\ UNCHANGED <<msqVars, ltVars>>

\* Drop: current = mem::replace(&mut self.head, Atomic::null()) (lines 20-22)
TsDropStart ==
    /\ ts_phase = "live"
    /\ \A t \in Threads : ts_pc[t] = "idle"
    /\ ts_cur' = ts_head
    /\ ts_head' = Null
    /\ ts_phase' = "dropping"
    /\ UNCHANGED <<ts_prev, ts_data, ts_nalloc, ts_addr, tsThread, tsEpoch, tsGhost>>
    /\ UNCHANGED <<msqVars, ltVars>>

\* Drop, one turn of the loop: the node becomes a Box, its data is dropped,
\* current moves to node.prev and the Box is freed (lines 24-36)
TsDropNode ==
    /\ ts_phase = "dropping"
    /\ ts_cur # Null
    /\ LET n == ts_cur IN
        /\ TsDeref(n)
        /\ ts_dropped' = TsDestroyed([ts_dropped EXCEPT ![ts_data[n]] = @ + 1], {n})
        /\ ts_freed' = [ts_freed EXCEPT ![n] = @ + 1]
        /\ ts_cur' = ts_prev[n]
    /\ UNCHANGED <<tsShared, tsThread, ts_retired, ts_blockers, ts_phase, ts_returned>>
    /\ UNCHANGED <<msqVars, ltVars>>

\* Drop: current is null, the loop ends (line 24)
TsDropEnd ==
    /\ ts_phase = "dropping"
    /\ ts_cur = Null
    /\ ts_phase' = "dropped"
    /\ UNCHANGED <<tsShared, tsThread, tsEpoch, ts_cur, tsGhost>>
    /\ UNCHANGED <<msqVars, ltVars>>

TsNext ==
    \/ \E t \in Threads :
        \/ TsPushStart(t) \/ TsPushLoad(t) \/ TsPushCas(t)
        \/ TsPopStart(t) \/ TsPopLoad(t) \/ TsPopPrev(t) \/ TsPopCas(t)
    \/ \E n \in TsNodes : TsReclaim(n)
    \/ TsDropStart \/ TsDropNode \/ TsDropEnd

\* the Treiber stack used by the threads, then dropped
TsSpec == Init /\ [][TsNext]_vars

\* A thread inside a call keeps running: the scheduler is weakly fair to each
\* thread.  Whether a thread calls again is up to its caller.
InCallStep(t) == pc[t] # "idle" /\ ThreadStep(t)

InitLive == InitWith(MaxCallsLive)

FairSpec == InitLive /\ [][Next]_vars /\ \A t \in Threads : WF_vars(InCallStep(t))

\* One thread may stop for good at any point of a call; the others keep running.
Staller == CHOOSE t \in Threads : \A u \in Threads : t <= u

StallSpec ==
    InitLive /\ [][Next]_vars /\ \A t \in Threads \ {Staller} : WF_vars(InCallStep(t))

\* ------------------------------------------------------------ history
Quiescent == Live /\ \A t \in Threads : pc[t] = "idle"

\* the values whose push has been called
PushedValues == {v \in Values : v[2] <= pushCount[v[1]]}

\* the successful pops that have returned: <<consumer, index in got>>
GotEntries == {e \in Threads \X (1..MaxCalls) : e[2] <= Len(got[e[1]])}
GotVal(e) == got[e[1]][e[2]][1]
GotWin(e) == got[e[1]][e[2]][2]

GotCount(v) == Cardinality({e \in GotEntries : GotVal(e) = v})
ChainCount(v) == Cardinality({i \in 1..Len(AbsQ) : AbsQ[i] = v})

\* t is the only thread that has ever called the queue
SoloRun(t) == \A u \in Threads \ {t} : op[u] = "none"

\* the steps of a thread that matter to its callers
Links(t) == pc[t] = "push_link" /\ pc'[t] = "push_swing"
Wins(t) == pc[t] = "pop_cas_head" /\ pc'[t] = "pop_read"
ReturnsNone(t) ==
    /\ pc[t] \in {"pop_tail_next", "pop_load_next"}
    /\ pc'[t] = "idle"
ReturnsSome(t) == pc[t] = "pop_retire" /\ pc'[t] = "idle"
ReturnsBool(t) == pc[t] = "ie_load_next" /\ pc'[t] = "idle"

\* ---------------------------------------------------------------- C1
\* C1: no value is duplicated or lost: every value a pop returned was pushed
\* and was returned by no other pop, and once no call is in flight every
\* pushed value is either among the returned values or still in the chain
\* after head, exactly once.
C1_NoDupNoLoss ==
    /\ \A e \in GotEntries : GotVal(e) \in PushedValues
    /\ \A v \in Values : GotCount(v) <= 1
    /\ Quiescent =>
         /\ \A v \in Values :
              GotCount(v) + ChainCount(v) = IF v \in PushedValues THEN 1 ELSE 0
         /\ \A i \in 1..Len(AbsQ) : AbsQ[i] \in Values

C1_Witness ==
    /\ Quiescent
    /\ calls = MaxCalls
    /\ AbsQ # <<>>
    /\ \A t \in Threads : pushCount[t] >= 1
    /\ \E t \in Threads : got[t] # <<>>

LinearizationStep ==
    /\ \A t \in Threads :
         /\ Links(t) => AbsQ' = Append(AbsQ, <<t, pushCount[t]>>)
         /\ Wins(t) => AbsQ # <<>> /\ AbsQ' = Tail(AbsQ)
                        /\ linPops'[l_win'[t]] = Head(AbsQ)
         /\ ReturnsNone(t) => AbsQ = <<>> /\ ret'[t] = None
         /\ ReturnsSome(t) => l_win[t] \in 1..Len(linPops)
                               /\ ret'[t] = linPops[l_win[t]]
         /\ ReturnsBool(t) =>
               IF ret'[t] = BoolRet(TRUE) THEN AbsQ = <<>>
               ELSE ret'[t] = BoolRet(FALSE) /\ nonEmptySeen[t]
         /\ (pc[t] = "push_swing" /\ pc'[t] = "idle") =>
               \E i \in 1..Len(FullChain) : data[FullChain[i]] = <<t, pushCount[t]>>
    /\ (\A t \in Threads : ~Links(t) /\ ~Wins(t)) => AbsQ' = AbsQ

\* C4: the queue is linearizable: while the queue is live every step is a
\* LinearizationStep, so each call takes effect at one instant between its
\* call and its return and matches an atomic FIFO queue.
C4_Linearizable == [][phase' = "live" => LinearizationStep]_vars

\* a pop has read the value its head CAS removed while a later push is
\* linked but has not returned
C4_Witness ==
    /\ \E t \in Threads : pc[t] = "pop_retire" /\ ret[t] = linPops[l_win[t]]
    /\ \E u \in Threads : pc[u] = "push_swing"
    /\ AbsQ # <<>>

\* ---------------------------------------------------------------- C5
\* C5: a try_pop returns None only at an instant of the call, its read of
\* the successor pointer, at which the successor pointer of the queue's
\* current head is null (no linked, unpopped value is present).
C5_NoneOnlyWhenEmpty ==
    [][\A t \in Threads : ReturnsNone(t) => (Live /\ next[head] = Null)]_vars

\* a try_pop has returned None although values had been pushed and popped
C5_Witness ==
    \E t \in Threads :
        /\ pc[t] = "idle" /\ op[t] = "try_pop" /\ ret[t] = None
        /\ Len(linPops) >= 1

\* ---------------------------------------------------------------- C6
PushDerefs == {"push_load_next", "push_link"}

\* the node thread t dereferences at its next step, Null when none
NextDeref(t) ==
    CASE pc[t] \in PushDerefs -> l_tail[t]
      [] pc[t] = "pop_tail_next" -> l_tail[t]
      [] pc[t] \in {"pop_load_next", "ie_load_next"} -> l_head[t]
      [] pc[t] = "pop_read" -> PopPayloadNode(t)
      [] OTHER -> Null

\* C6: no node is dereferenced after it has been destroyed: a retired node
\* is destroyed only once every thread pinned at its retirement has unpinned,
\* no dereference so far hit a destroyed node, the node each thread is about
\* to dereference is not destroyed, and neither is the node head or tail
\* points to.
C6_NoUseAfterFree ==
    /\ ~uaf
    /\ \A n \in Nodes : freed[n] > 0 => blockers[n] = {}
    /\ \A t \in Threads : NextDeref(t) # Null => freed[NextDeref(t)] = 0
    /\ Live => freed[head] = 0 /\ freed[tail] = 0

\* a thread is about to dereference a node that has been retired and that
\* only this thread's guard keeps from being destroyed
C6_Witness ==
    \E t \in Threads :
        /\ NextDeref(t) # Null
        /\ retired[NextDeref(t)] = 1
        /\ blockers[NextDeref(t)] = {t}

\* --------------------------------------------------------------- C10
\* C10: once Drop has run, every node after the sentinel it started from had
\* its payload dropped exactly once and moved out by nobody else, the
\* sentinel's payload slot was not touched by Drop, no uninitialized slot was
\* ever read, and every node from the sentinel on was freed exactly once.
C10_Teardown ==
    phase = "dropped" =>
        /\ Len(dropChain) >= 1
        /\ dropChain[1] = head
        /\ \A i \in 1..Len(dropChain) :
             /\ freed[dropChain[i]] = 1
             /\ payloadDrops[dropChain[i]] = IF i = 1 THEN 0 ELSE 1
             /\ reads[dropChain[i]] = IF dropChain[i] = Dummy THEN 0 ELSE 1
        /\ \A n \in Nodes : freed[n] <= 1 /\ payloadDrops[n] <= 1 /\ reads[n] <= 1
        /\ \A n \in 1..nalloc :
             (retired[n] = 1) # (\E i \in 1..Len(dropChain) : dropChain[i] = n)
        /\ ~readUninit
        /\ ~uaf

\* Drop ran on a queue with a payload left behind a sentinel whose own
\* payload a pop had consumed
C10_Witness ==
    /\ phase = "dropped"
    /\ Len(dropChain) = 2
    /\ dropChain[1] # Dummy
    /\ payloadDrops[dropChain[2]] = 1

\* ---------------------------------------------------------------- C7
\* the value of the push thread t is in, or was last in, is linked
PushLinked(t) ==
    \E i \in 1..Len(FullChain) : data[FullChain[i]] = <<t, pushCount[t]>>

\* C7: under weak fairness for every thread, each push that has been called
\* returns, and when it returns its node is linked into the chain.
C7_PushTerminates ==
    \A t \in Threads :
        (op[t] = "push" /\ pc[t] # "idle")
            ~> (op[t] = "push" /\ pc[t] = "idle" /\ PushLinked(t))

\* a push has returned that found a node linked behind a lagging tail: its
\* node follows the node of a push that has not swung tail yet
C7_Witness ==
    \E t, u \in Threads :
        /\ pc[u] = "push_swing"
        /\ next[l_new[u]] # Null
        /\ op[t] = "push" /\ pc[t] = "idle"
        /\ data[next[l_new[u]]] = <<t, pushCount[t]>>

\* ---------------------------------------------------------------- C8
\* C8: when one thread may stop for good anywhere, also between its link
\* CAS and its CAS on tail, every push and try_pop of the other threads
\* still returns, and a spinning pop of another thread does not wait for the
\* stalled pusher: it returns, or the values are taken by others.
C8_StallDoesNotBlock ==
    \A t \in Threads \ {Staller} :
        /\ (op[t] \in {"push", "try_pop"} /\ pc[t] # "idle") ~> (pc[t] = "idle")
        /\ (op[t] = "pop" /\ pc[t] # "idle" /\ pc[Staller] = "push_swing")
              ~> (pc[t] = "idle" \/ pc[Staller] # "push_swing" \/ AbsQ = <<>>)

\* the value of the pusher stalled before its CAS on tail has been popped by
\* another thread, and tail was moved past the stalled node by a helper
C8_Witness ==
    /\ pc[Staller] = "push_swing"
    /\ tail # l_tail[Staller]
    /\ \E t \in Threads \ {Staller} : \E i \in 1..Len(got[t]) :
          got[t][i][1] = <<Staller, pushCount[Staller]>>

\* ---------------------------------------------------------------- C9
PopReturns(t) == op[t] = "pop" /\ pc[t] # "idle" /\ pc'[t] = "idle"

\* C9: pop returns only with a value that was pushed, which its own head CAS
\* took from a non-empty queue (so it does not return while the queue stays
\* empty), and under weak fairness a pop does not spin forever while a
\* value stays in the queue: it returns, or others take the values.
C9_PopSpins ==
    /\ [][\A t \in Threads : PopReturns(t) =>
            /\ ReturnsSome(t)
            /\ ret'[t] \in PushedValues
            /\ ret'[t] = linPops[l_win[t]]]_vars
    /\ \A t \in Threads :
         (op[t] = "pop" /\ pc[t] # "idle" /\ AbsQ # <<>>)
            ~> (pc[t] = "idle" \/ AbsQ = <<>>)

\* a pop that found the queue empty at least once has won its head CAS
C9_Witness ==
    \E t \in Threads : op[t] = "pop" /\ pc[t] = "pop_read" /\ ret[t] = None

\* --------------------------------------------------------------- C11
\* C11: when one thread alone uses the queue, is_empty returns true right
\* after construction and after the pop that removed the last value, and
\* false after a push while fewer values have been popped than pushed: its
\* answer is true exactly when as many values were popped as pushed.
C11_SeqIsEmpty ==
    \A t \in Threads :
        (SoloRun(t) /\ pc[t] = "idle" /\ op[t] = "is_empty") =>
            ret[t] = BoolRet(Len(got[t]) = pushCount[t])

\* alone, a thread pushed a value, popped it and then found the queue empty
C11_Witness ==
    \E t \in Threads :
        /\ SoloRun(t)
        /\ pc[t] = "idle" /\ op[t] = "is_empty" /\ ret[t] = BoolRet(TRUE)
        /\ pushCount[t] = 1 /\ Len(got[t]) = 1
        /\ head # Dummy

\* --------------------------------------------------------------- C12
\* a step of thread t inside is_empty, its call included
IsEmptyStep(t) ==
    /\ op'[t] = "is_empty"
    /\ pc'[t] # pc[t]
    /\ pc[t] \in {"ie_load_head", "ie_load_next"} \/ pc'[t] = "ie_load_head"

\* C12: is_empty never modifies the queue: every step of an is_empty call,
\* also in a state where tail lags behind the last node, leaves head, tail,
\* every next pointer, every payload and the retired and destroyed nodes
\* unchanged, so the values in the queue stay what they were; its answer is
\* that of the unchanged queue when head is still the head it loaded.
C12_IsEmptyFrame ==
    [][\A t \in Threads : IsEmptyStep(t) =>
          /\ UNCHANGED <<head, tail, next, data, nalloc, addr, retired, freed>>
          /\ AbsQ' = AbsQ
          /\ (ReturnsBool(t) /\ l_head[t] = head) =>
                ret'[t] = BoolRet(next'[head'] = Null)]_vars

\* is_empty has answered false on a queue whose tail lags behind the last node
C12_Witness ==
    \E t \in Threads :
        /\ pc[t] = "idle" /\ op[t] = "is_empty" /\ ret[t] = BoolRet(FALSE)
        /\ next[tail] # Null
        /\ AbsQ # <<>>

\* --------------------------------------------------------------- C13
\* a step of a try_pop of thread t that has seen the queue empty at every
\* instant since its call, the call included
EmptyTryPopStep(t) ==
    /\ op'[t] = "try_pop"
    /\ pc'[t] # pc[t]
    /\ \/ pc[t] = "idle" /\ pc'[t] = "pop_load_head" /\ AbsQ = <<>>
       \/ pc[t] # "idle" /\ ~nonEmptySeen[t]

\* C13: a try_pop that runs while the queue is empty leaves head, tail, all
\* next pointers, the payloads and the retired nodes unchanged at every step,
\* takes neither the helping branch nor the head CAS, and returns None.
C13_EmptyTryPop ==
    [][\A t \in Threads : EmptyTryPopStep(t) =>
          /\ UNCHANGED <<head, tail, next, data, nalloc, addr, retired>>
          /\ pc'[t] \in {"pop_load_head", "pop_load_tail", "pop_tail_next", "idle"}
          /\ pc'[t] = "idle" => ret'[t] = None]_vars

\* every call so far ran on the queue as constructed, the last of them a
\* try_pop that returned None
C13_Witness ==
    /\ calls = MaxCalls
    /\ nalloc = 1
    /\ head = Dummy /\ tail = Dummy /\ next[Dummy] = Null
    /\ \A t \in Threads : pc[t] = "idle" /\ op[t] = "try_pop" /\ ret[t] = None

\* --------------------------------------------------------------- C14
\* t is the only thread that has ever called the LazyTransform
SoloLt(t) == \A u \in Threads \ {t} : lt_op[u] = "none"

\* C14: when one thread alone uses a LazyTransform, get returns None before
\* the first set_source, and after a set_source(s) every get returns
\* transform(s) for the last s set, also when an earlier source had been
\* transformed and cached.
C14_SeqGet ==
    \A t \in Threads :
        (SoloLt(t) /\ lt_pc[t] = "idle" /\ lt_op[t] = "get") =>
            lt_ret[t] = IF setCount[t] = 0 THEN LtNone
                        ELSE Transform(Source(t, setCount[t]))

\* alone, a thread got the transform of its second source after the
\* transform of its first had been cached
C14_Witness ==
    \E t \in Threads :
        /\ SoloLt(t)
        /\ lt_pc[t] = "idle" /\ lt_op[t] = "get"
        /\ setCount[t] = 2
        /\ transforms[1] = 1 /\ transforms[2] = 1
        /\ lt_ret[t] = Transform(Source(t, 2))

\* --------------------------------------------------------------- C15
\* C15: a get that began when no other call was in progress, and during and
\* since which no other call began, has returned the transform of the source
\* of the set_source call that drew the highest sequence number.
C15_ConvergesToNewest ==
    \A t \in Threads :
        (lt_pc[t] = "idle" /\ lt_op[t] = "get" /\ quietGet[t] /\ seq_counter > 0) =>
            lt_ret[t] = Transform(srcOf[seq_counter])

\* --------------------------------------------------------------- C16
\* the ValueContexts allocated so far
ValCtxs == {c \in 1..nctx : ctx_val[c] # LtNone}

\* C16: LazyTransform is lazy and caches: the transform runs only in a step
\* of a get, never in a step of set_source; it runs at most once for each
\* sequence number, on the source that set_source call installed; no two
\* ValueContexts carry the same sequence number, and the assert_ne checks of
\* store_val never fail.
C16_LazyOnce ==
    /\ [](/\ \A q \in Seqs : transforms[q] <= 1
          /\ \A q \in Seqs : transforms[q] = 1 => q <= seq_counter
          /\ \A c \in ValCtxs : ctx_val[c] = Transform(srcOf[ctx_seq[c]])
          /\ \A c, d \in ValCtxs : ctx_seq[c] = ctx_seq[d] => c = d
          /\ panics \cap {"store_val:328", "store_val:363"} = {})
    /\ [][transforms' # transforms =>
            \E t \in Threads : lt_op[t] = "get" /\ lt_pc[t] = "get_transform"
                               /\ lt_pc'[t] = "sv_load"]_vars
    /\ [][\A t \in Threads : (lt_op'[t] = "set_source" /\ lt_pc'[t] # lt_pc[t])
                               => transforms' = transforms]_vars

\* two gets found the same source: one took it and ran the transform, the
\* other lost the CAS and goes on to the cached value without transforming
C16_Witness ==
    \E t, u \in Threads :
        /\ t # u
        /\ lt_pc[t] \in {"sv_load", "sv_cas"}
        /\ lt_pc[u] = "get_load_val"
        /\ transforms[ctx_seq[new_val[t]]] = 1
        /\ \E c \in 1..nctx : ctx_retired[c] = 1 /\ ctx_source[c] = NoSource
                               /\ ctx_val[c] = LtNone /\ c # src_ctx

\* --------------------------------------------------------------- C17
\* the get of thread t ends at this step, by a return or by a panic
GetEnds(t) ==
    /\ lt_op[t] = "get"
    /\ lt_pc[t] \notin {"idle", "panicked"}
    /\ lt_pc'[t] \in {"idle", "panicked"}

\* C17: once a get has returned Some, every get that starts afterwards, on
\* any thread and whatever set_source calls run beside it, returns Some.
C17_SomeStaysSome ==
    [][\A t \in Threads : (GetEnds(t) /\ afterSome[t]) =>
            (lt_pc'[t] = "idle" /\ lt_ret'[t] # LtNone)]_vars

\* --------------------------------------------------------------- C18
\* C18: at most one contender wins each head step: for every node at most one
\* head CAS that expects it succeeds; a node is retired at most once and its
\* payload read at most once; the step that retires node n is the return of
\* the call whose CAS on n succeeded, and while the queue is live the step
\* that reads the payload of a node is taken by the winner of the CAS on its
\* predecessor.
C18_OneWinner ==
    /\ [](\A n \in Nodes : Len(headWon[n]) <= 1 /\ retired[n] <= 1 /\ reads[n] <= 1)
    /\ [][\A n \in Nodes : retired'[n] # retired[n] =>
            /\ headWon[n] # <<>>
            /\ pc[headWon[n][1]] = "pop_retire" /\ pc'[headWon[n][1]] = "idle"
            /\ l_head[headWon[n][1]] = n]_vars
    /\ [][\A m \in Nodes : (reads'[m] # reads[m] /\ Live) =>
            \E n \in Nodes :
                /\ next[n] = m
                /\ headWon[n] # <<>>
                /\ pc[headWon[n][1]] = "pop_read" /\ pc'[headWon[n][1]] = "pop_retire"
                /\ l_head[headWon[n][1]] = n]_vars

\* two calls expect the same node in their head CAS: one has won and is
\* about to read the payload, the other is about to lose
C18_Witness ==
    \E t, u \in Threads :
        /\ t # u
        /\ pc[t] = "pop_read" /\ pc[u] = "pop_cas_head"
        /\ l_head[t] = l_head[u]
        /\ headWon[l_head[t]] = <<t>>

\* --------------------------------------------------------------- C19
\* C19: head only advances forward: every step that changes head moves it
\* from a node to that node's immediate successor and records the old node
\* as passed; head never points to a passed node again; and although the
\* allocator can give the address of a destroyed node to a new node, the
\* node a pending head CAS expects is never destroyed, so the address it
\* compares names that node only and the CAS cannot succeed on another node
\* at the same address (no ABA).
C19_HeadForward ==
    /\ [](Live => headWon[head] = <<>>)
    /\ [][head' # head =>
            /\ head' = next[head]
            /\ headWon[head'] = <<>>
            /\ headWon'[head] # <<>>]_vars
    /\ [](\A t \in Threads : pc[t] = "pop_cas_head" =>
             /\ freed[l_head[t]] = 0
             /\ \A n \in 1..nalloc :
                  (n # l_head[t] /\ addr[n] = addr[l_head[t]]) => freed[n] > 0
             /\ AddrOf(head) = AddrOf(l_head[t]) => head = l_head[t])

\* head has advanced, the first sentinel was destroyed, and the node after
\* head was allocated at the first sentinel's address
C19_Witness ==
    /\ Live
    /\ head # Dummy
    /\ freed[Dummy] = 1
    /\ next[head] # Null
    /\ addr[next[head]] = addr[Dummy]

\* --------------------------------------------------------------- C20
\* C20: while the queue is live head and tail are non-null and point to
\* allocated nodes that are neither retired nor destroyed, head was never
\* moved off its node, and each node a thread is about to dereference as the
\* head or tail it loaded is a non-null node that has not been destroyed.
C20_SentinelLive ==
    Live =>
        /\ head \in 1..nalloc /\ tail \in 1..nalloc
        /\ head # Null /\ tail # Null
        /\ retired[head] = 0 /\ freed[head] = 0 /\ headWon[head] = <<>>
        /\ retired[tail] = 0 /\ freed[tail] = 0
        /\ \A t \in Threads :
             /\ pc[t] \in {"push_load_next", "push_link", "pop_tail_next"} =>
                  l_tail[t] # Null /\ freed[l_tail[t]] = 0
             /\ pc[t] \in {"pop_load_next", "ie_load_next"} =>
                  l_head[t] # Null /\ freed[l_head[t]] = 0

\* a try_pop is about to dereference the head it loaded, a node that came
\* in by a push and became the sentinel when its payload was popped
C20_Witness ==
    \E t \in Threads :
        /\ pc[t] = "pop_tail_next"
        /\ l_head[t] = head /\ l_tail[t] = head
        /\ head # Dummy
        /\ reads[head] = 1
        /\ retired[Dummy] = 1

\* --------------------------------------------------------------- C21
\* C21: while the queue is live the payloads of the nodes strictly after
\* head, in next-pointer order, are the linked values (in link order) without
\* the ones whose pop has won its head CAS, which are the first linked ones in
\* that order; and as many values are linked as popped exactly when the
\* successor pointer of head is null.
C21_ChainIsLinkedNotPopped ==
    Live =>
        /\ Len(linPops) <= Len(linked)
        /\ linPops = SubSeq(linked, 1, Len(linPops))
        /\ AbsQ = SubSeq(linked, Len(linPops) + 1, Len(linked))
        /\ (Len(linked) = Len(linPops)) <=> (next[head] = Null)

\* two values were linked, the second by a push that has not returned yet,
\* and a pop has won its head CAS for the first without having read it
C21_Witness ==
    /\ Live
    /\ Len(linked) = 2 /\ Len(linPops) = 1
    /\ \E t \in Threads : pc[t] = "push_swing" /\ data[l_new[t]] = linked[2]
    /\ \E u \in Threads : pc[u] = "pop_read"
    /\ next[head] # Null

\* --------------------------------------------------------------- C22
\* the nodes whose next pointer is n
Preds(n) == {k \in 1..nalloc : next[k] = n}

\* the push that allocated n has not linked it yet
Unlinked(n) ==
    \E t \in Threads :
        /\ l_new[t] = n
        /\ pc[t] \in {"push_load_tail", "push_load_next", "push_help", "push_link"}

\* C22: while the queue is in use a next pointer changes only once, by the
\* link CAS of a push, from null to the node that push allocated, which had
\* no predecessor; every node a push has linked is the successor of exactly
\* one node and a node not yet linked of none; a push that has observed a
\* non-null tail.next helps and starts over without writing a next pointer,
\* and a push links only after it observed null; so the nodes reached from the
\* first sentinel are one chain without repetition that holds the sentinel
\* and every linked node, and nothing else has a predecessor.
C22_SingleChain ==
    /\ [][\A n \in Nodes : (next'[n] # next[n] /\ phase' = "live") =>
            /\ next[n] = Null
            /\ \E t \in Threads :
                 /\ Links(t)
                 /\ l_tail[t] = n
                 /\ l_next[t] = Null
                 /\ next'[n] = l_new[t]
                 /\ Preds(l_new[t]) = {}
                 /\ \A k \in Nodes \ {n} : next'[k] = next[k]]_vars
    /\ [][\A t \in Threads : (pc[t] = "push_help" /\ pc'[t] # "push_help") =>
            pc'[t] = "push_load_tail" /\ next' = next]_vars
    /\ [](Live =>
            /\ \A t \in Threads :
                 /\ pc[t] = "push_help" => l_next[t] # Null
                 /\ pc[t] = "push_link" => l_next[t] = Null
            /\ \A n \in 2..nalloc :
                 Cardinality(Preds(n)) = IF Unlinked(n) THEN 0 ELSE 1
            /\ Preds(Dummy) = {}
            /\ Len(FullChain) = 1 + Len(linked)
            /\ \A i, j \in 1..Len(FullChain) : FullChain[i] = FullChain[j] => i = j
            /\ \A i \in 2..Len(FullChain) : data[FullChain[i]] = linked[i - 1])

\* a push has seen the node another push just linked behind the tail it
\* loaded and is about to help instead of linking its own node
C22_Witness ==
    \E t, u \in Threads :
        /\ t # u
        /\ pc[t] = "push_help" /\ pc[u] = "push_swing"
        /\ l_next[t] = l_new[u]
        /\ Preds(l_new[u]) = {l_tail[t]}
        /\ Preds(l_new[t]) = {}

\* --------------------------------------------------------------- C23
\* t moves the payload of node m out in try_pop (line 181)
PopReads(t, m) ==
    /\ pc[t] = "pop_read" /\ pc'[t] = "pop_retire"
    /\ PopPayloadNode(t) = m

RetiredNodes == {n \in Nodes : retired[n] > 0}

\* the threads that have won the head CAS and not yet retired the old head
Retiring == {t \in Threads : pc[t] \in {"pop_read", "pop_retire"}}

\* C24: the step by which a try_pop returns a value retires exactly one
\* node, the node its winning head CAS expected, and no other step retires a
\* node; no node is retired twice; the node retired is neither head nor tail
\* nor reachable from head, and while the queue is live no retired node is;
\* and the number of retired nodes equals the number of pops that have
\* returned a value, which is the number of head CAS won less the winners
\* still on their way to defer_destroy.
C24_RetireOldSentinel ==
    /\ [](/\ \A n \in Nodes : retired[n] <= 1
          /\ Cardinality(RetiredNodes) = Cardinality(GotEntries)
          /\ Cardinality(RetiredNodes) = Len(linPops) - Cardinality(Retiring)
          /\ Live => /\ retired[head] = 0 /\ retired[tail] = 0
                     /\ \A i \in 1..Len(Chain) : retired[Chain[i]] = 0)
    /\ [][\A t \in Threads : ReturnsSome(t) =>
            /\ retired' = [retired EXCEPT ![l_head[t]] = @ + 1]
            /\ headWon[l_head[t]] = <<t>>
            /\ l_head[t] # head /\ l_head[t] # tail
            /\ \A i \in 1..Len(Chain) : Chain[i] # l_head[t]]_vars
    /\ [][retired' # retired => \E t \in Threads : ReturnsSome(t)]_vars

\* a pop has returned and retired the first sentinel, which the guard of a
\* push still in flight holds back, and a value is left behind the new head
C24_Witness ==
    /\ Live
    /\ RetiredNodes = {Dummy}
    /\ Cardinality(GotEntries) = 1
    /\ head # Dummy /\ next[head] # Null
    /\ \E t \in Threads : pc[t] = "push_swing" /\ blockers[Dummy] = {t}

\* --------------------------------------------------------------- C25
\* an attempt of try_pop inside pop has failed and pop starts the next one
PopRetries(t) ==
    /\ op[t] = "pop"
    /\ pc[t] \in {"pop_tail_next", "pop_load_next"}
    /\ pc'[t] = "pop_load_head"

\* t is inside pop
InPop(t) == op[t] = "pop" /\ pc[t] # "idle"

InTryPop(t) == pc[t] # "idle" /\ op[t] \in {"try_pop", "pop"}

\* try_pop gives None back, to its caller or to the loop of pop
YieldsNone(t) ==
    /\ pc[t] \in {"pop_tail_next", "pop_load_next"}
    /\ pc'[t] \in {"idle", "pop_load_head"}

IterationFails(t) ==
    \/ pc[t] \in {"push_help", "push_link"} /\ pc'[t] = "push_load_tail"
    \/ pc[t] = "pop_cas_head" /\ pc'[t] = "pop_load_head"

\* C27: the retry loops are lock-free: whenever an iteration of push or
\* try_pop ends without completing, a CAS on head, tail or a next pointer has
\* succeeded since the first load of that iteration (the thread's own helping
\* CAS included); and the successful CAS are paid for by operations: there are
\* never more of them than two per linked push (its link and one advance of
\* tail) plus one per pop that won head, so retries without end need
\* operations completing without end.
C27_LockFree ==
    /\ [][\A t \in Threads : IterationFails(t) => casSeen'[t]]_vars
    /\ [](/\ casCount <= 2 * Len(linked) + Len(linPops)
          /\ casCount >= Len(linked) + Len(linPops))

\* a try_pop is about to lose its head CAS to a pop that advanced head after
\* the loser's iteration began
C27_Witness ==
    \E t \in Threads :
        /\ pc[t] = "pop_cas_head"
        /\ casSeen[t]
        /\ AddrOf(head) # AddrOf(l_head[t])
        /\ headWon[l_head[t]] # <<>>

\* --------------------------------------------------------------- C28
\* how far along the chain from the first sentinel node n lies
Pos(n) == CHOOSE i \in 1..Len(FullChain) : FullChain[i] = n

\* the final compare_exchange of push on tail (line 136) and its return
SwingStep(t) == pc[t] = "push_swing" /\ pc'[t] = "idle"

\* C28: after the final CAS of push on tail, failed or not, tail points to
\* the new node or to a node after it; a failure (tail left as it was) happens
\* only when tail is already there, hence past the node the push observed as
\* tail; a success moves tail from the observed node to the new node, its
\* successor; and no step moves tail backward along the chain.
C28_TailCasBestEffort ==
    /\ [][\A t \in Threads : SwingStep(t) =>
            /\ Pos(tail') >= Pos(l_new[t])
            /\ tail' = tail => Pos(tail) >= Pos(l_new[t]) /\ Pos(tail) > Pos(l_tail[t])
            /\ tail' # tail =>
                  /\ tail = l_tail[t]
                  /\ tail' = l_new[t]
                  /\ next[tail] = tail']_vars
    /\ [][phase' = "live" => Pos(tail') >= Pos(tail)]_vars

\* a push is about to fail its final CAS on tail: another thread has already
\* helped tail forward to the node this push linked
C28_Witness ==
    \E t \in Threads :
        /\ pc[t] = "push_swing"
        /\ tail = l_new[t]
        /\ AddrOf(tail) # AddrOf(l_tail[t])
        /\ next[l_tail[t]] = l_new[t]

BeforeHeadCas ==
    {"pop_load_head", "pop_load_tail", "pop_tail_next", "pop_help",
     "pop_load_next", "pop_cas_head"}

TailCasStep(t) ==
    /\ pc[t] \in {"push_help", "push_swing", "pop_help"}
    /\ pc'[t] # pc[t]

\* C31: tail lags at most one node: while the queue is live the successor of
\* tail is null or is the last node of the chain, so tail is the last node
\* but one at worst; and every step that changes tail is a compare_exchange
\* on tail that moves it to the immediate successor of the node it was at.
C31_TailLagsAtMostOne ==
    /\ [](Live =>
            /\ next[tail] = Null \/ next[next[tail]] = Null
            /\ Pos(tail) >= Len(FullChain) - 1)
    /\ [][tail' # tail =>
            /\ tail' = next[tail]
            /\ Pos(tail') = Pos(tail) + 1
            /\ \E t \in Threads : TailCasStep(t)]_vars

\* tail has advanced before and lags again: a push has linked a node behind
\* it, and another push that loaded tail there is about to help it forward
C31_Witness ==
    /\ Live
    /\ tail # Dummy
    /\ next[tail] # Null
    /\ \E t \in Threads : pc[t] = "push_help" /\ l_tail[t] = tail /\ l_next[t] = next[tail]

\* --------------------------------------------------------------- C32
\* C32: head never overtakes tail: while the queue is live tail is one of
\* the nodes reached from head (head itself included), tail is not retired,
\* and at the step by which a try_pop wins its head CAS tail is not the old
\* sentinel, so tail is still reached from the new head.
C32_HeadBehindTail ==
    /\ [](Live =>
            /\ \E i \in 1..Len(Chain) : Chain[i] = tail
            /\ Pos(head) <= Pos(tail)
            /\ retired[tail] = 0)
    /\ [][\A t \in Threads : Wins(t) =>
            /\ tail # l_head[t]
            /\ AddrOf(tail) # AddrOf(l_head[t])
            /\ Pos(head') <= Pos(tail')]_vars

\* a try_pop found head and tail at the same node, tail has been helped on
\* to the successor, and the try_pop is about to win its head CAS
C32_Witness ==
    \E t \in Threads :
        /\ pc[t] = "pop_cas_head"
        /\ l_head[t] = l_tail[t]
        /\ head = l_head[t]
        /\ tail = l_next[t]

\* --------------------------------------------------------------- C33
\* the step of try_pop that loads head.next and tests it (lines 168-172)
LoadsHeadNext(t) == pc[t] = "pop_load_next" /\ pc'[t] # "pop_load_next"

\* C33: when try_pop loads head.next the successor is not null, whether
\* the loaded head differed from the loaded tail (tail is then further along
\* the chain than the loaded head) or tail was helped forward first; so the
\* step never leaves through `next.as_ref()?`, and a None comes only from the
\* step that found head == tail with a null successor.
C33_AsRefNeverNone ==
    /\ [](\A t \in Threads : pc[t] = "pop_load_next" =>
            /\ l_head[t] # l_tail[t] =>
                  /\ Pos(l_tail[t]) > Pos(l_head[t])
                  /\ AddrOf(l_head[t]) # AddrOf(l_tail[t])
            /\ next[l_head[t]] # Null)
    /\ [][\A t \in Threads : LoadsHeadNext(t) =>
            /\ pc'[t] = "pop_cas_head"
            /\ l_next'[t] = next[l_head[t]]
            /\ l_next'[t] # Null
            /\ ret'[t] = ret[t]]_vars
    /\ [][\A t \in Threads : ReturnsNone(t) =>
            /\ pc[t] = "pop_tail_next"
            /\ AddrOf(l_head[t]) = AddrOf(l_tail[t])
            /\ next[l_tail[t]] = Null]_vars

\* a try_pop loaded a head that differs from the tail it loaded, head has
\* moved on since, and the try_pop is about to load the successor of its head
C33_Witness ==
    \E t \in Threads :
        /\ pc[t] = "pop_load_next"
        /\ l_head[t] # l_tail[t]
        /\ head # l_head[t]
        /\ next[l_head[t]] = head

\* --------------------------------------------------------------- C34
\* C34: set_source never writes an outdated source: no step replaces the
\* context in src_ctx by one with a smaller sequence number.
C34_SrcSeqNeverDecreases ==
    [][(src_ctx # Null /\ src_ctx' # src_ctx) =>
            ctx_seq'[src_ctx'] >= ctx_seq[src_ctx]]_vars

\* --------------------------------------------------------------- C35
\* C35: the assertions of take_source never fail: no get has panicked at
\* assert!(seq <= cur_seq) or at assert!(cur_source.is_none()).
C35_TakeSourceAsserts ==
    /\ "take_source:275" \notin panics
    /\ "take_source:303" \notin panics

\* --------------------------------------------------------------- C36
\* store_val hands its result to the caller of get
StoreValReturns(t) == lt_pc[t] \in {"sv_load", "sv_cas"} /\ lt_pc'[t] = "idle"

\* C36: the cached value only moves forward: every step that changes val_ctx
\* installs a non-null context, with a sequence number strictly greater than
\* that of the context it replaces, and it is the CAS of a store_val that
\* installs its own value; and store_val returns the value it has just
\* installed or the value of the installed context, whose sequence number is
\* then greater than its own.
C36_ValueMovesForward ==
    /\ [][val_ctx' # val_ctx =>
            /\ val_ctx' # Null
            /\ val_ctx # Null => ctx_seq[val_ctx'] > ctx_seq[val_ctx]
            /\ \E t \in Threads :
                 /\ lt_pc[t] = "sv_cas"
                 /\ val_ctx = cur_val[t]
                 /\ val_ctx' = new_val[t]]_vars
    /\ [][\A t \in Threads : StoreValReturns(t) =>
            \/ /\ val_ctx' = new_val[t] /\ val_ctx # new_val[t]
               /\ lt_ret'[t] = ctx_val[new_val[t]]
            \/ /\ val_ctx' = val_ctx /\ val_ctx # Null
               /\ ctx_seq[val_ctx] > ctx_seq[new_val[t]]
               /\ lt_ret'[t] = ctx_val[val_ctx]]_vars

\* a store_val with the older value is about to fail its CAS: a value with
\* a higher sequence number was installed after it loaded val_ctx
C36_Witness ==
    \E t \in Threads :
        /\ lt_pc[t] = "sv_cas"
        /\ val_ctx # Null
        /\ val_ctx # cur_val[t]
        /\ ctx_seq[val_ctx] > ctx_seq[new_val[t]]

\* --------------------------------------------------------------- C37
\* context c is installed in src_ctx or in val_ctx
Installed(c) == c = src_ctx \/ c = val_ctx

\* the collector may already have reclaimed context c: it was retired and no
\* guard that was active at its retirement is left
Reclaimable(c) == ctx_retired[c] > 0 /\ lt_blockers[c] = {}

\* the contexts thread t still dereferences through a reference it was
\* handed: do_transform reads the source of the context take_source returned
HeldRefs(t) == IF lt_pc[t] = "get_transform" THEN {taken[t]} ELSE {}

\* C37: every context is retired exactly once over the life of the object
\* (never twice, and once the object is dropped none is left unretired),
\* never while it is installed in src_ctx or val_ctx, and no reference handed
\* out by take_source or get is used on a context the collector may have
\* reclaimed.
C37_RetiredExactlyOnce ==
    /\ \A c \in 1..nctx : ctx_retired[c] <= 1
    /\ lt_phase = "dropped" => \A c \in 1..nctx : ctx_retired[c] = 1
    /\ LtLive => \A c \in 1..nctx : Installed(c) => ctx_retired[c] = 0
    /\ \A t \in Threads : \A c \in HeldRefs(t) : ~Reclaimable(c)

\* --------------------------------------------------------------- C38
\* C38: no pushed payload is ever disposed of twice (returned by two pops,
\* dropped twice, or returned and dropped), once the Stack has been dropped
\* every pushed payload has been returned by one pop or dropped once, and
\* nothing that was not pushed is returned or dropped.
C38_ExactlyOnceDisposal ==
    LET pushed == 1 .. ts_nalloc
        disposals(q) == ts_returned[q] + ts_dropped[q]
    IN  /\ \A q \in pushed : disposals(q) <= 1
        /\ ts_phase = "dropped" => \A q \in pushed : disposals(q) = 1
        /\ \A q \in TsNodes \ pushed : disposals(q) = 0

\* the Stack has been dropped after concurrent calls: one payload was
\* returned by a pop whose node has been destroyed, another one was dropped
\* by Drop
C38_Witness ==
    /\ ts_phase = "dropped"
    /\ \E n \in 1..ts_nalloc : ts_returned[ts_data[n]] = 1 /\ ts_freed[n] = 1
    /\ \E q \in 1..ts_nalloc : ts_dropped[q] = 1

====
